---- MODULE Spec2Model ----
(***************************************************************************)
(* Model of the telemetry facade of react-native-firebase-analytics:       *)
(* FirebaseAnalyticsService (init / logEvent / setUserProperty /           *)
(* setUserProperties / clearUserData / derived events) and the             *)
(* Event/User-State routers (AnalyticsEventService, AnalyticsUserService). *)
(*                                                                         *)
(* JavaScript is single-threaded and cooperative: an async function runs   *)
(* atomically from one await to the next.  Every action below is one such  *)
(* synchronous segment of one call; several calls may be in flight at once *)
(* (one per slot of Calls) and interleave only at their awaits.  A provider *)
(* call is a nondeterministic choice over what the SDK can do: return,     *)
(* throw or reject.                                                        *)
(***************************************************************************)
EXTENDS Integers, Sequences, FiniteSets, TLC

\* ---------------------------------------------------------------- bounds
MaxCalls == 2           \* calls that may be in flight at the same time
MaxAcquire == 2         \* the getAnalytics counter saturates here

Calls == 1..MaxCalls

\* ---------------------------------------------------------------- values
None == "none"                  \* null / undefined handle
NativeHandle == "hNative"       \* what nativeAnalytics.getAnalytics() returns
WebHandle == "hWeb"             \* what webAnalytics.getAnalytics(app) returns
NoUser == ""                    \* userId absent (undefined or '', both falsy)
UserIds == {"u1"}
EmptyMap == [x \in {} |-> ""]   \* the object literal {}
NoParams == [x \in {"<undefined>"} |-> ""]   \* the params argument left out
EventNames == {"e1"}
ParamMaps == {NoParams, [p1 |-> "x"]}
PropKeys == {"k1"}
PropVals == {"v1"}
\* property maps in entry order, as Object.entries enumerates them
PropLists == {<<>>, << <<"k1", "v1">>, <<"k2", "v1">> >>}
ScreenNames == {"Home"}
ScreenClasses == {"HomeScreen"}

Map1(k, v) == [x \in {k} |-> v]
Put(m, k, v) == [x \in (DOMAIN m) \cup {k} |-> IF x = k THEN v ELSE m[x]]
Has(m, k) == k \in DOMAIN m
\* JavaScript's a || b on an optional string field of an object
OrElse(m, k, dflt) == IF Has(m, k) /\ m[k] # "" THEN m[k] ELSE dflt

VARIABLES
  layer,              \* which of the independent layers the callers use
  nativeAnalyticsAdapter,  \* adapter module: the native adapter is not null
  webAnalyticsAdapter,     \* adapter module: the web adapter is not null
  nativeAnalytics,    \* module variable: the native SDK was loadable
  webAnalytics,       \* module variable: the web SDK was loadable
  webHasIsSupported,  \* webAnalytics.isSupported is defined
  isInitialized,      \* FirebaseAnalyticsService.isInitialized
  userId,             \* FirebaseAnalyticsService.userId
  userProperties,     \* FirebaseAnalyticsService.userProperties
  analytics,          \* FirebaseAnalyticsService.analytics (the handle)
  pc,                 \* per call: where it is suspended
  op,                 \* per call: the operation and its arguments
  sent,               \* per call: the provider calls it has dispatched
  res,                \* per call: how its promise settled
  todo,               \* per call: entries setUserProperties still has to do
  initEver,           \* history: init() has been called at least once
  acquires,           \* history: getAnalytics calls since the last clearUserData
  activeTimings,      \* PerformanceTracker.activeTimings
  now,                \* the clock: Date.now()
  outcome,            \* per track call: how the wrapped operation settled
  ret,                \* per call: the value it returned or the error it threw
  starts,             \* history: per id, clock readings of the last starts
  dev,                \* the build constant __DEV__
  nativeWarningLogged,  \* AnalyticsInitializerService.nativeWarningLogged (static)
  warnings,           \* console: 'Native module not available' warnings logged
  focusedScreen,      \* the screen has focus: the props its effects captured
  startTimeRef,       \* useScreenTime: startTimeRef.current
  previousScreenRef,  \* useNavigationTracking: previousScreenRef.current
  isFirstFocusRef,    \* useNavigationTracking: isFirstFocusRef.current
  task,               \* useScreenView: the task waiting for the interactions
  views               \* history: screen_view requests since the last focus

facadeVars == <<isInitialized, userId, userProperties, analytics>>
envVars == <<layer, nativeAnalyticsAdapter, webAnalyticsAdapter,
            nativeAnalytics, webAnalytics, webHasIsSupported, dev>>
callVars == <<pc, op, sent, res, todo>>
trackerVars == <<activeTimings, now, starts>>
warningVars == <<nativeWarningLogged, warnings>>
hookVars == <<focusedScreen, startTimeRef, previousScreenRef, isFirstFocusRef,
             task, views>>
vars == <<layer, nativeAnalyticsAdapter, webAnalyticsAdapter,
          nativeAnalytics, webAnalytics, webHasIsSupported, isInitialized,
          userId, userProperties, analytics, pc, op, sent, res, todo,
          initEver, acquires, activeTimings, now, outcome, ret, starts,
          dev, nativeWarningLogged, warnings, focusedScreen, startTimeRef,
          previousScreenRef, isFirstFocusRef, task, views>>

\* the facade's fields as one record, for the pure translations below
Facade == [isInitialized |-> isInitialized, userId |-> userId,
           userProperties |-> userProperties, analytics |-> analytics]

\* `if (nativeAnalytics && this.analytics) ... else if (webAnalytics && ...)`
Provider == IF nativeAnalytics THEN "native"
            ELSE IF webAnalytics THEN "web" ELSE "none"

\* one call of a provider method: provider kind, method, handle, name, map
ACall(p, m, h, n, a) == [m |-> m, p |-> p, h |-> h, n |-> n, a |-> a]
PCall(m, h, n, a) == ACall(Provider, m, h, n, a)

\* AnalyticsInstance { instance, platform }, and null
NullInstance == [instance |-> None, platform |-> "null"]
Instances == {NullInstance,
              [instance |-> NativeHandle, platform |-> "native"],
              [instance |-> WebHandle, platform |-> "web"]}

\* a call: the operation, its instance argument (routers), name, map, entries
RouterOperation(name, i, n, a, l) ==
  [name |-> name, i |-> i, n |-> n, a |-> a, l |-> l]
Operation(name, n, a, l) == RouterOperation(name, NullInstance, n, a, l)

Idle == Operation("idle", "", EmptyMap, <<>>)

Free(c) == pc[c] \in {"idle", "done"}

Null == "null"                  \* userId = null

\* what a call returns or throws, and how a wrapped operation settles
NoValue == [kind |-> "none"]
Value(v) == [kind |-> "value", v |-> v]
Results == {Value("result")}
\* `new Error('boom')`, and a thrown value that is not an Error
Errors == {[kind |-> "error", isError |-> TRUE, message |-> "boom"],
           [kind |-> "error", isError |-> FALSE, message |-> "oops"]}

Min(a, b) == IF a < b THEN a ELSE b

HandleOutcomes == {"handle", "nothing", "throws"}   \* getAnalytics()
AppOutcomes == {"app", "null", "throws"}            \* getFirebaseApp()
SupportOutcomes == {"true", "false", "rejects"}     \* isSupported()

\* ------------------------------------------------------------------------
\* One synchronous segment of a call yields: the facade it leaves, the
\* provider calls it dispatched, where the call is suspended next ("done"
\* when it returned), how its promise settled, and the entries left to do.
\* ------------------------------------------------------------------------
Seg(f, out, nextpc) ==
  [f |-> f, out |-> out, pc |-> nextpc,
   res |-> IF nextpc = "done" THEN "resolved" ELSE "pending", todo |-> <<>>]

Rejected(f) == [Seg(f, <<>>, "done") EXCEPT !.res = "rejected"]

WithTodo(s, l) == [s EXCEPT !.todo = l]

\* `this.isInitialized = true`
Mark(f) == [f EXCEPT !.isInitialized = TRUE]

\* ---------------------------------------------------------------- setUserProperty
\* (mutant) a catch block of setUserProperty that rethrows
SetUserPropertyRethrow(f) == Rejected(f)

\* the catch block of setUserProperty: `catch (_error) { /* Silent fail */ }`
SetUserPropertyCatch(f) == Seg(f, <<>>, "done")

\* setUserProperty up to its await
SetUserPropertyBody(f, key, value) ==
  IF f.analytics = None
    THEN Seg(f, <<>>, "done")
    ELSE LET f1 == [f EXCEPT !.userProperties = Put(@, key, value)]
         IN IF Provider = "none"
              THEN Seg(f1, <<>>, "done")
              ELSE Seg(f1, <<PCall("setUserProperties", f.analytics, "",
                                   Map1(key, value))>>, "prop_await")

\* `await this.setUserProperty(k, v)` seen from a caller that goes on at nextpc
AwaitSetUserProperty(f, key, value, nextpc) ==
  [SetUserPropertyBody(f, key, value) EXCEPT !.pc = nextpc, !.res = "pending"]

\* ---------------------------------------------------------------- init
\* init's last branch: no implementation available
InitNoProvider(f) == Seg(Mark(f), <<>>, "done")

\* the catch block of initNative followed by `this.isInitialized = true`
InitNativeCatch(f) == Seg(Mark(f), <<>>, "done")

\* (mutant) an early return of initWeb that forgets `this.isInitialized = true`
InitWebFailUnmarked(f) == Seg(f, <<>>, "done")

\* the catch blocks and early returns of initWeb
InitWebFail(f) == Seg(Mark(f), <<>>, "done")

\* `this.isInitialized = true` at the end of initNative and initWeb
InitFinish(f) == Seg(Mark(f), <<>>, "done")

\* `if (userId) {...} else {...}` of initNative and initWeb, up to the await
InitTagUser(f, uid, out) ==
  IF uid # NoUser
    THEN Seg([f EXCEPT !.userId = uid],
             out \o <<PCall("setUserId", f.analytics, uid, EmptyMap)>>,
             "init_setUserId")
    ELSE LET s == AwaitSetUserProperty(f, "user_type", "guest", "init_tag")
         IN [s EXCEPT !.out = out \o @]

\* the getAnalytics call: h is the handle it returned, n says if it threw
GetAnalytics(o, h) ==
  <<PCall("getAnalytics", IF o = "handle" THEN h ELSE None,
          IF o = "throws" THEN "throws" ELSE "", EmptyMap)>>

InitNative(f, uid, o) ==
  LET got == GetAnalytics(o, NativeHandle)
  IN IF o = "throws"
       THEN [InitNativeCatch(f) EXCEPT !.out = got]
       ELSE LET f1 == [f EXCEPT !.analytics =
                          IF o = "handle" THEN NativeHandle ELSE None]
            IN IF uid # NoUser /\ f1.analytics = None
                 \* instance.setUserId on a null instance: TypeError, caught
                 THEN [InitNativeCatch([f1 EXCEPT !.userId = uid])
                          EXCEPT !.out = got]
                 ELSE InitTagUser(f1, uid, got)

\* initWeb from getFirebaseApp() on
InitWebAcquire(f, uid, o, app) ==
  IF app # "app"
    THEN InitWebFail(f)
    ELSE IF f.analytics = None
      THEN LET got == GetAnalytics(o, WebHandle)
           IN IF o = "throws"
                THEN [InitWebFail(f) EXCEPT !.out = got]
                ELSE IF o = "handle"
                  THEN InitTagUser([f EXCEPT !.analytics = WebHandle], uid, got)
                  ELSE [InitFinish(f) EXCEPT !.out = got]
      ELSE InitTagUser(f, uid, <<>>)

InitWeb(f, uid, o, app) ==
  IF webHasIsSupported
    THEN Seg(f, <<PCall("isSupported", None, "", EmptyMap)>>, "init_isSupported")
    ELSE InitWebAcquire(f, uid, o, app)

\* (mutant) init that tries the web SDK first
InitBodyWebFirst(f, uid, o, app) ==
  IF webAnalytics THEN InitWeb(f, uid, o, app)
  ELSE IF nativeAnalytics THEN InitNative(f, uid, o)
  ELSE InitNoProvider(f)

InitBody(f, uid, o, app) ==
  IF nativeAnalytics THEN InitNative(f, uid, o)
  ELSE IF webAnalytics THEN InitWeb(f, uid, o, app)
  ELSE InitNoProvider(f)

\* after `await webAnalytics.isSupported()`
InitAfterSupported(f, uid, sup, o, app) ==
  IF sup = "true" THEN InitWebAcquire(f, uid, o, app) ELSE InitWebFail(f)

\* after `await <provider>.setUserId(this.analytics, userId)`
InitAfterSetUserId(f, ok) ==
  IF ok THEN AwaitSetUserProperty(f, "user_type", "authenticated", "init_tag")
  ELSE IF nativeAnalytics THEN InitNativeCatch(f) ELSE InitFinish(f)

\* ---------------------------------------------------------------- logEvent
\* the catch blocks of logEvent
LogEventCatch(f) == Seg(f, <<>>, "done")

\* (mutant) logEvent without its `if (!this.analytics) return`
LogEventBodyUnguarded(f, name, params) ==
  IF Provider = "none"
    THEN Seg(f, <<>>, "done")
    ELSE Seg(f, <<PCall("logEvent", f.analytics, name, params)>>, "log_await")

\* (mutant) logEvent that forwards the event without its params
LogEventBodyNoParams(f, name, params) ==
  IF f.analytics = None \/ Provider = "none"
    THEN Seg(f, <<>>, "done")
    ELSE Seg(f, <<PCall("logEvent", f.analytics, name, NoParams)>>, "log_await")

\* logEvent up to its await
LogEventBody(f, name, params) ==
  IF f.analytics = None \/ Provider = "none"
    THEN Seg(f, <<>>, "done")
    ELSE Seg(f, <<PCall("logEvent", f.analytics, name, params)>>, "log_await")

\* ---------------------------------------------------------------- derived events
ScreenViewParams(a) ==
  [screen_name |-> a.screen_name,
   screen_class |-> OrElse(a, "screen_class", a.screen_name)]

ScreenTimeParams(a) ==
  [screen_name |-> a.screen_name,
   screen_class |-> OrElse(a, "screen_class", a.screen_name),
   time_spent_seconds |-> a.time_spent_seconds]

NavigationParams(a) ==
  [from_screen |-> a.from_screen, to_screen |-> a.to_screen,
   screen_class |-> OrElse(a, "screen_class", a.to_screen)]

\* (mutant) logButtonClick whose button_name defaults to screen_name
ButtonClickParamsOtherDefault(a) ==
  [button_id |-> a.button_id,
   button_name |-> OrElse(a, "button_name", a.screen_name),
   screen_name |-> a.screen_name,
   screen_class |-> OrElse(a, "screen_class", a.screen_name)]

ButtonClickParams(a) ==
  [button_id |-> a.button_id,
   button_name |-> OrElse(a, "button_name", a.button_id),
   screen_name |-> a.screen_name,
   screen_class |-> OrElse(a, "screen_class", a.screen_name)]

\* ---------------------------------------------------------------- clearUserData
\* lines 311-313: the reset of the local state
Reset(f) == [f EXCEPT !.userId = Null, !.userProperties = EmptyMap,
                      !.isInitialized = FALSE]

\* (mutant) a catch block of clearUserData that rethrows
ClearUserDataRethrow(f) == Rejected(f)

\* the catch block of clearUserData
ClearUserDataCatch(f) == Seg(f, <<>>, "done")

\* a provider method of the native wrapper is a method of the handle itself:
\* on a null handle the call is a TypeError before anything is dispatched
ClearDispatch(f, m, a, nextpc) ==
  IF nativeAnalytics /\ f.analytics = None
    THEN ClearUserDataCatch(f)
    ELSE Seg(f, <<PCall(m, f.analytics, "", a)>>, nextpc)

ClearBody(f) ==
  IF f.analytics = None THEN Seg(f, <<>>, "done")
  ELSE IF Provider = "none" THEN Seg(Reset(f), <<>>, "done")
  ELSE Seg(f, <<PCall("setUserId", f.analytics, "", EmptyMap)>>,
           "clear_setUserId")

ClearAfterSetUserId(f, ok) ==
  IF ok THEN ClearDispatch(f, "setUserProperties", EmptyMap,
                           "clear_setUserProperties")
  ELSE ClearUserDataCatch(f)

ClearAfterSetUserProperties(f, ok) ==
  IF ~ok THEN ClearUserDataCatch(f)
  ELSE IF nativeAnalytics
    THEN ClearDispatch(f, "resetAnalyticsData", EmptyMap, "clear_reset")
    ELSE Seg(Reset(f), <<>>, "done")

ClearAfterReset(f, ok) ==
  IF ok THEN Seg(Reset(f), <<>>, "done") ELSE ClearUserDataCatch(f)

\* ------------------------------------------------------------------------
\* Initial state: the module has been loaded (each SDK was loadable or not)
\* and the singleton has just been constructed.
\* ------------------------------------------------------------------------
\* the layers whose callers use the adapter modules, not the facade's SDKs
AdapterLayers == {"router", "initializer"}

\* the layers whose callers are those of the PerformanceTracker
TrackerLayers == {"tracker", "timing", "collision", "decorators", "ends"}

\* the state after module load and construction, the callers using layer l
InitLayer(l) ==
  /\ layer = l
  \* the SDK variables of a layer matter only to that layer
  /\ nativeAnalyticsAdapter \in (IF layer \in AdapterLayers THEN BOOLEAN ELSE {FALSE})
  /\ webAnalyticsAdapter \in (IF layer \in AdapterLayers THEN BOOLEAN ELSE {FALSE})
  /\ nativeAnalytics \in (IF layer \notin AdapterLayers THEN BOOLEAN ELSE {FALSE})
  \* the tracker reaches the provider through logEvent alone: one SDK will do
  /\ webAnalytics \in (IF layer \in {"facade", "events"} THEN BOOLEAN ELSE {FALSE})
  \* isSupported is read by initWeb alone, which runs only without the native SDK
  /\ webHasIsSupported \in
       (IF webAnalytics /\ ~nativeAnalytics THEN BOOLEAN ELSE {FALSE})
  /\ isInitialized = FALSE
  /\ userId = Null
  /\ userProperties = EmptyMap
  /\ analytics = None
  /\ pc = [c \in Calls |-> "idle"]
  /\ op = [c \in Calls |-> Idle]
  /\ sent = [c \in Calls |-> <<>>]
  /\ res = [c \in Calls |-> "pending"]
  /\ todo = [c \in Calls |-> <<>>]
  /\ initEver = FALSE
  /\ acquires = 0
  /\ activeTimings = EmptyMap
  /\ now \in (IF layer \in TrackerLayers THEN 0..1 ELSE {0})
  /\ outcome = [c \in Calls |-> NoValue]
  /\ ret = [c \in Calls |-> NoValue]
  /\ starts = EmptyMap
  /\ dev \in (IF layer = "initializer" THEN BOOLEAN ELSE {FALSE})
  /\ nativeWarningLogged = FALSE
  /\ warnings = 0
  /\ focusedScreen = NoValue
  /\ startTimeRef = NoValue              \* useRef<number | null>(null)
  /\ previousScreenRef = NoValue         \* useRef<string | null>(null)
  /\ isFirstFocusRef = TRUE              \* useRef(true)
  /\ task = NoValue
  /\ views = 0

Init == \E l \in {"facade", "router"} : InitLayer(l)

\* number of getAnalytics calls among the provider calls out
Acquired(out) == Cardinality({i \in 1..Len(out) : out[i].m = "getAnalytics"})

Count(c, o, s) ==
  IF o.name = "clearUserData" THEN 0
  ELSE Min(acquires + Acquired(s.out), MaxAcquire)

RouterOps == {"r_logEvent", "r_setUserId", "r_setUserProperty",
              "r_setUserProperties", "r_clearUserData"}

\* Bookkeeping only: the record of a finished call is kept until the next
\* step of any call and then forgotten (v is the slot's cleared value).
Keep(x, c, mine, v) ==
  [d \in Calls |-> IF d = c THEN mine
                   ELSE IF pc[d] = "done" THEN v ELSE x[d]]

\* slot c starts operation o; s is its first synchronous segment, and rv is
\* what the call has returned to its caller by the end of that segment
BeginCall(c, o, s, rv) ==
  /\ IF o.name \in RouterOps THEN layer \in AdapterLayers ELSE layer # "router"
  /\ Free(c)
  /\ \A d \in Calls : d < c => ~Free(d)     \* a new call takes the first free slot
  /\ isInitialized' = s.f.isInitialized
  /\ userId' = s.f.userId
  /\ userProperties' = s.f.userProperties
  /\ analytics' = s.f.analytics
  /\ pc' = Keep(pc, c, s.pc, "idle")
  /\ op' = Keep(op, c, o, Idle)
  /\ sent' = Keep(sent, c, s.out, <<>>)
  /\ res' = Keep(res, c, s.res, "pending")
  /\ todo' = Keep(todo, c, s.todo, <<>>)
  /\ initEver' = (initEver \/ o.name = "init")
  /\ acquires' = Count(c, o, s)
  /\ outcome' = Keep(outcome, c, NoValue, NoValue)
  /\ ret' = Keep(ret, c, rv, NoValue)
  /\ UNCHANGED <<envVars, trackerVars, warningVars>>

\* the same, made by a caller that is no hook
BeginWith(c, o, s, rv) == BeginCall(c, o, s, rv) /\ UNCHANGED hookVars

\* slot c starts an async operation: its caller holds a promise
Begin(c, o, s) == BeginWith(c, o, s, NoValue)

\* the call in slot c is resumed; s is its next synchronous segment
Resume(c, s) ==
  /\ isInitialized' = s.f.isInitialized
  /\ userId' = s.f.userId
  /\ userProperties' = s.f.userProperties
  /\ analytics' = s.f.analytics
  /\ pc' = Keep(pc, c, s.pc, "idle")
  /\ op' = Keep(op, c, op[c], Idle)
  /\ sent' = Keep(sent, c, sent[c] \o s.out, <<>>)
  /\ res' = Keep(res, c, s.res, "pending")
  /\ todo' = Keep(todo, c, s.todo, <<>>)
  /\ acquires' = Count(c, op[c], s)
  /\ outcome' = Keep(outcome, c, NoValue, NoValue)
  /\ ret' = Keep(ret, c, NoValue, NoValue)
  /\ UNCHANGED initEver
  /\ UNCHANGED <<envVars, trackerVars, warningVars, hookVars>>

\* ---------------------------------------------------------------- init
\* the outcomes that the segment about to run can meet
HandleChoices(reached) ==
  IF reached /\ (nativeAnalytics \/ analytics = None) THEN HandleOutcomes ELSE {"handle"}
AppChoices(reached) == IF reached /\ ~nativeAnalytics THEN AppOutcomes ELSE {"app"}

InitCall(c) ==
  \E uid \in UserIds \cup {NoUser},
     o \in HandleChoices(nativeAnalytics \/ (webAnalytics /\ ~webHasIsSupported)),
     app \in AppChoices(webAnalytics /\ ~webHasIsSupported) :
    Begin(c, Operation("init", uid, EmptyMap, <<>>),
          InitBody(Facade, uid, o, app))

InitIsSupportedReturns(c) ==
  /\ pc[c] = "init_isSupported"
  /\ \E sup \in SupportOutcomes :
       \E o \in HandleChoices(sup = "true"), app \in AppChoices(sup = "true") :
         Resume(c, InitAfterSupported(Facade, op[c].n, sup, o, app))

InitSetUserIdReturns(c) ==
  /\ pc[c] = "init_setUserId"
  /\ \E ok \in BOOLEAN : Resume(c, InitAfterSetUserId(Facade, ok))

\* setUserProperty('user_type', ...) has returned, whatever the provider did
InitTagReturns(c) ==
  /\ pc[c] = "init_tag"
  /\ Resume(c, InitFinish(Facade))

\* ---------------------------------------------------------------- logEvent
LogEventCall(c) ==
  \E name \in EventNames, params \in ParamMaps :
    Begin(c, Operation("logEvent", name, params, <<>>),
          LogEventBody(Facade, name, params))

\* an argument object with and without the optional field k
Opt(base, k, vals) ==
  {base} \cup {[x \in (DOMAIN base) \cup {k} |->
                 IF x = k THEN v ELSE base[x]] : v \in vals}

\* The exploration of overlapping calls gives each derived event one
\* argument object; the "events" layer gives it all of them.
Pick(all, one) == IF layer = "events" THEN all ELSE {one}

ScreenViewArgs ==
  Pick(UNION {Opt([screen_name |-> n], "screen_class", ScreenClasses \cup {""}) :
                n \in ScreenNames},
       [screen_name |-> "Home"])

LogScreenViewCall(c) ==
  \E a \in ScreenViewArgs :
    Begin(c, Operation("logScreenView", "", a, <<>>),
          LogEventBody(Facade, "screen_view", ScreenViewParams(a)))

Seconds == {30}

ScreenTimeArgs ==
  Pick(UNION {Opt([screen_name |-> n, time_spent_seconds |-> t],
                  "screen_class", ScreenClasses \cup {""}) :
                n \in ScreenNames, t \in Seconds \cup {0}},
       [screen_name |-> "Home", screen_class |-> "HomeScreen",
        time_spent_seconds |-> 30])

LogScreenTimeCall(c) ==
  \E a \in ScreenTimeArgs :
    Begin(c, Operation("logScreenTime", "", a, <<>>),
          LogEventBody(Facade, "screen_time", ScreenTimeParams(a)))

NavigationArgs ==
  Pick(Opt([from_screen |-> "Home", to_screen |-> "Profile"],
           "screen_class", {"", "ProfileScreen"}),
       [from_screen |-> "Home", to_screen |-> "Profile"])

LogNavigationCall(c) ==
  \E a \in NavigationArgs :
    Begin(c, Operation("logNavigation", "", a, <<>>),
          LogEventBody(Facade, "navigation", NavigationParams(a)))

ButtonClickArgs ==
  Pick(UNION {Opt(b, "button_name", {"", "Save"}) :
                b \in Opt([button_id |-> "save", screen_name |-> "Form"],
                          "screen_class", {"", "FormScreen"})},
       [button_id |-> "save", screen_name |-> "Form"])

LogButtonClickCall(c) ==
  \E a \in ButtonClickArgs :
    Begin(c, Operation("logButtonClick", "", a, <<>>),
          LogEventBody(Facade, "button_click", ButtonClickParams(a)))

\* the provider's logEvent returned or rejected
LogEventReturns(c) ==
  /\ pc[c] = "log_await"
  /\ \E ok \in BOOLEAN :
       Resume(c, IF ok THEN Seg(Facade, <<>>, "done") ELSE LogEventCatch(Facade))

\* ---------------------------------------------------------------- setUserProperty
SetUserPropertyCall(c) ==
  \E k \in PropKeys, v \in PropVals :
    Begin(c, Operation("setUserProperty", k, Map1(k, v), <<>>),
          SetUserPropertyBody(Facade, k, v))

SetUserPropertyReturns(c) ==
  /\ pc[c] = "prop_await"
  /\ \E ok \in BOOLEAN :
       Resume(c, IF ok THEN Seg(Facade, <<>>, "done")
                 ELSE SetUserPropertyCatch(Facade))

\* the loop of setUserProperties, entered with the entries l left to do
SetUserPropertiesLoop(f, l) ==
  IF l = <<>> THEN Seg(f, <<>>, "done")
  ELSE WithTodo(AwaitSetUserProperty(f, l[1][1], l[1][2], "props_await"),
                Tail(l))

SetUserPropertiesCall(c) ==
  \E l \in PropLists :
    Begin(c, Operation("setUserProperties", "", EmptyMap, l),
          SetUserPropertiesLoop(Facade, l))

\* `await this.setUserProperty(key, value)` of the loop has returned
SetUserPropertiesNext(c) ==
  /\ pc[c] = "props_await"
  /\ \E ok \in BOOLEAN :
       LET r == IF ok THEN Seg(Facade, <<>>, "done")
                ELSE SetUserPropertyCatch(Facade)
       IN Resume(c, IF r.res = "rejected" THEN r
                    ELSE SetUserPropertiesLoop(Facade, todo[c]))

\* ---------------------------------------------------------------- clearUserData
ClearUserDataCall(c) ==
  Begin(c, Operation("clearUserData", "", EmptyMap, <<>>), ClearBody(Facade))

ClearSetUserIdReturns(c) ==
  /\ pc[c] = "clear_setUserId"
  /\ \E ok \in BOOLEAN : Resume(c, ClearAfterSetUserId(Facade, ok))

ClearSetUserPropertiesReturns(c) ==
  /\ pc[c] = "clear_setUserProperties"
  /\ \E ok \in BOOLEAN : Resume(c, ClearAfterSetUserProperties(Facade, ok))

ClearResetReturns(c) ==
  /\ pc[c] = "clear_reset"
  /\ \E ok \in BOOLEAN : Resume(c, ClearAfterReset(Facade, ok))

\* ------------------------------------------------------------------------
\* Event router (AnalyticsEventService) and user-state router
\* (AnalyticsUserService): stateless, they dispatch on instance.platform.
\* ------------------------------------------------------------------------
\* (mutant) a router that takes the native adapter whenever there is one,
\* whatever the platform of the instance
AdapterNativeFirst(i) ==
  IF nativeAnalyticsAdapter THEN "native"
  ELSE IF webAnalyticsAdapter THEN "web"
  ELSE "none"

\* `platform === 'native' && nativeAnalyticsAdapter` / `'web' && webAnalyticsAdapter`
Adapter(i) ==
  IF i.platform = "native" /\ nativeAnalyticsAdapter THEN "native"
  ELSE IF i.platform = "web" /\ webAnalyticsAdapter THEN "web"
  ELSE "none"

\* The instance a router call is given: any of them or, where the caller
\* has it from the initializer, one that an initialize() call just returned.
RouterInstances ==
  IF layer = "initializer"
    THEN {ret[d].v : d \in {e \in Calls : ret[e].kind = "value"}}
    ELSE Instances

\* the catch blocks of the routers: `catch (_error) { // Silent fail }`
RouterCatch(f) == Seg(f, <<>>, "done")

\* one adapter call inside the try block, the call going on at nextpc
RouterDispatch(f, i, m, n, a, nextpc) ==
  IF i = NullInstance \/ Adapter(i) = "none"
    THEN Seg(f, <<>>, "done")
    ELSE Seg(f, <<ACall(Adapter(i), m, i.instance, n, a)>>, nextpc)

RouterLogEventCall(c) ==
  \E i \in RouterInstances, name \in EventNames, params \in ParamMaps :
    Begin(c, RouterOperation("r_logEvent", i, name, params, <<>>),
          RouterDispatch(Facade, i, "logEvent", name, params, "r_await"))

RouterSetUserIdCall(c) ==
  \E i \in RouterInstances, uid \in UserIds :
    Begin(c, RouterOperation("r_setUserId", i, uid, EmptyMap, <<>>),
          RouterDispatch(Facade, i, "setUserId", uid, EmptyMap, "r_await"))

RouterSetUserPropertyCall(c) ==
  \E i \in RouterInstances, k \in PropKeys, v \in PropVals :
    Begin(c, RouterOperation("r_setUserProperty", i, k, Map1(k, v), <<>>),
          RouterDispatch(Facade, i, "setUserProperties", "", Map1(k, v),
                         "r_await"))

\* the adapter call of logEvent / setUserId / setUserProperty returned or rejected
RouterReturns(c) ==
  /\ pc[c] = "r_await"
  /\ \E ok \in BOOLEAN :
       Resume(c, IF ok THEN Seg(Facade, <<>>, "done") ELSE RouterCatch(Facade))

\* the loop of AnalyticsUserService.setUserProperties
RouterPropertiesLoop(f, i, l) ==
  IF l = <<>> THEN Seg(f, <<>>, "done")
  ELSE WithTodo([RouterDispatch(f, i, "setUserProperties", "",
                                Map1(l[1][1], l[1][2]), "r_props_await")
                   EXCEPT !.pc = "r_props_await", !.res = "pending"],
                Tail(l))

RouterSetUserPropertiesCall(c) ==
  \E i \in RouterInstances, l \in PropLists :
    Begin(c, RouterOperation("r_setUserProperties", i, "", EmptyMap, l),
          RouterPropertiesLoop(Facade, i, l))

RouterSetUserPropertiesNext(c) ==
  /\ pc[c] = "r_props_await"
  /\ \E ok \in BOOLEAN :
       LET r == IF ok THEN Seg(Facade, <<>>, "done") ELSE RouterCatch(Facade)
       IN Resume(c, IF r.res = "rejected" THEN r
                    ELSE RouterPropertiesLoop(Facade, op[c].i, todo[c]))

RouterClearUserDataCall(c) ==
  \E i \in RouterInstances :
    Begin(c, RouterOperation("r_clearUserData", i, "", EmptyMap, <<>>),
          RouterDispatch(Facade, i, "setUserId", "", EmptyMap,
                         "r_clear_setUserId"))

RouterClearSetUserIdReturns(c) ==
  /\ pc[c] = "r_clear_setUserId"
  /\ \E ok \in BOOLEAN :
       Resume(c, IF ok THEN RouterDispatch(Facade, op[c].i, "setUserProperties",
                                           "", EmptyMap, "r_clear_properties")
                 ELSE RouterCatch(Facade))

\* after setUserProperties({}): the native adapter also has resetAnalyticsData
RouterClearSetUserPropertiesReturns(c) ==
  /\ pc[c] = "r_clear_properties"
  /\ \E ok \in BOOLEAN :
       Resume(c, IF ~ok THEN RouterCatch(Facade)
                 ELSE IF Adapter(op[c].i) = "native"
                   THEN RouterDispatch(Facade, op[c].i, "resetAnalyticsData", "",
                                       EmptyMap, "r_clear_reset")
                   ELSE Seg(Facade, <<>>, "done"))

RouterClearResetReturns(c) ==
  /\ pc[c] = "r_clear_reset"
  /\ \E ok \in BOOLEAN :
       Resume(c, IF ok THEN Seg(Facade, <<>>, "done") ELSE RouterCatch(Facade))

\* any step of the call in slot c
Step(c) ==
    \/ RouterLogEventCall(c)
    \/ RouterSetUserIdCall(c)
    \/ RouterSetUserPropertyCall(c)
    \/ RouterReturns(c)
    \/ RouterSetUserPropertiesCall(c)
    \/ RouterSetUserPropertiesNext(c)
    \/ RouterClearUserDataCall(c)
    \/ RouterClearSetUserIdReturns(c)
    \/ RouterClearSetUserPropertiesReturns(c)
    \/ RouterClearResetReturns(c)
    \/ InitCall(c)
    \/ InitIsSupportedReturns(c)
    \/ InitSetUserIdReturns(c)
    \/ InitTagReturns(c)
    \/ LogEventCall(c)
    \/ LogScreenViewCall(c)
    \/ LogScreenTimeCall(c)
    \/ LogNavigationCall(c)
    \/ LogButtonClickCall(c)
    \/ LogEventReturns(c)
    \/ SetUserPropertyCall(c)
    \/ SetUserPropertyReturns(c)
    \/ SetUserPropertiesCall(c)
    \/ SetUserPropertiesNext(c)
    \/ ClearUserDataCall(c)
    \/ ClearSetUserIdReturns(c)
    \/ ClearSetUserPropertiesReturns(c)
    \/ ClearResetReturns(c)

Next == \E c \in Calls : Step(c)

Spec == Init /\ [][Next]_vars

\* The derived events with all their argument objects, on a facade that
\* init() may have bound; the calls are made one after another.
InitEvents == InitLayer("events")

NextEvents ==
  \/ InitCall(1)
  \/ InitIsSupportedReturns(1)
  \/ InitSetUserIdReturns(1)
  \/ InitTagReturns(1)
  \/ LogScreenViewCall(1)
  \/ LogScreenTimeCall(1)
  \/ LogNavigationCall(1)
  \/ LogButtonClickCall(1)
  \/ LogEventReturns(1)

SpecEvents == InitEvents /\ [][NextEvents]_vars

\* The callers await every call before they make the next one: a single
\* slot is ever in use.
NextSeq == Step(1)

SpecSeq == Init /\ [][NextSeq]_vars

\* ------------------------------------------------------------------------
\* PerformanceTracker: start / end / track over the activeTimings registry.
\* It reports through firebaseAnalyticsService.logEvent.
\* ------------------------------------------------------------------------
MaxClock == 2
MaxTime == 4
OpIds == {"op1", "op2"}

\* the metadata the TrackOperation decorator gives to end: in its try block,
\* and in its catch block (with a duration_ms of its own)
DecoratorMetadata ==
  {[operation |-> "save", method |-> "run", success |-> TRUE],
   [operation |-> "save", method |-> "run", success |-> FALSE, duration_ms |-> 7]}

\* metadata?: absent or given; the "timing" layer, whose calls are made one
\* after another, adds metadata that carries the computed keys itself
EndMetadata ==
  {EmptyMap, [success |-> TRUE]}
    \cup (IF layer = "timing" THEN DecoratorMetadata ELSE {})

\* the hooks read the clock in milliseconds, which pass TickMs at a time
TickMs == 250
MaxMs == 1500

\* how far the clock runs, and by how much at a time
Horizon == IF layer = "timing" THEN MaxTime
           ELSE IF layer = "hooks" THEN MaxMs ELSE MaxClock
TickSize == IF layer = "hooks" THEN TickMs ELSE 1

TrackerOps == {"t_start", "t_end", "t_track"}

\* `{ ...a, ...b }`
Merge(a, b) ==
  [k \in (DOMAIN a) \cup (DOMAIN b) |-> IF k \in DOMAIN b THEN b[k] ELSE a[k]]

\* activeTimings.delete(k)
Remove(m, k) == [x \in (DOMAIN m) \ {k} |-> m[x]]

\* the call firebaseAnalyticsService.logEvent('performance_metric', params)
Metric(params) == ACall("facade", "logEvent", None, "performance_metric", params)

\* start: activeTimings.set(operationId, Date.now())
StartBody(timings, t, id) == Put(timings, id, t)

\* (mutant) end without `if (!startTime) return`: a missing start counts as 0
EndBodyUnchecked(timings, t, id, metadata) ==
  LET startTime == IF Has(timings, id) THEN timings[id] ELSE 0
      params == Merge([operation |-> id, duration_ms |-> t - startTime], metadata)
      le == LogEventBody(Facade, "performance_metric", params)
  IN [timings |-> Remove(timings, id),
      seg |-> [le EXCEPT !.out = <<Metric(params)>> \o @]]

\* (mutant) end whose computed keys win over the caller's metadata
EndBodyComputedWins(timings, t, id, metadata) ==
  IF ~Has(timings, id) \/ timings[id] = 0
    THEN [timings |-> timings, seg |-> Seg(Facade, <<>>, "done")]
    ELSE LET params == Merge(metadata,
                             [operation |-> id, duration_ms |-> t - timings[id]])
             le == LogEventBody(Facade, "performance_metric", params)
         IN [timings |-> Remove(timings, id),
             seg |-> [le EXCEPT !.out = <<Metric(params)>> \o @]]

\* end up to its await: the registry it leaves and what logEvent does
EndBody(timings, t, id, metadata) ==
  IF ~Has(timings, id) \/ timings[id] = 0         \* `if (!startTime) return`
    THEN [timings |-> timings, seg |-> Seg(Facade, <<>>, "done")]
    ELSE LET params == Merge([operation |-> id, duration_ms |-> t - timings[id]],
                             metadata)
             le == LogEventBody(Facade, "performance_metric", params)
         IN [timings |-> Remove(timings, id),
             seg |-> [le EXCEPT !.out = <<Metric(params)>> \o @]]

\* the metadata track gives to end
SuccessMetadata == [success |-> TRUE]
FailureMetadata(e) ==
  [success |-> FALSE,
   error_message |-> IF e.isError THEN e.message ELSE "Unknown error"]

\* the error of a provider call, should logEvent ever let it through
ProviderError == [kind |-> "error", isError |-> TRUE, message |-> "provider"]

\* track once its end() has settled: `return result` / `throw error`; an
\* end() that rejected leaves through the catch block with its own error
TrackFinish(oc, endRes) ==
  IF endRes = "rejected" THEN [res |-> "rejected", ret |-> ProviderError]
  ELSE IF oc.kind = "value" THEN [res |-> "resolved", ret |-> oc]
  ELSE [res |-> "rejected", ret |-> oc]

\* History of the track calls in flight, by slot: the clock reading at which
\* the call started, whether a track call with the same id was in flight
\* then (later), and whether one has started since (overlapped).
Tracked(c, o, nextpc) ==
  LET others == (DOMAIN starts) \ {c}
      same == {d \in others : op[d].n = o.n}
  IN IF Free(c) /\ o.name = "t_track"
       THEN [d \in others \cup {c} |->
               IF d = c THEN [t |-> now, later |-> same # {}, overlapped |-> FALSE]
               ELSE [starts[d] EXCEPT !.overlapped = @ \/ d \in same]]
     ELSE IF nextpc = "done" THEN Remove(starts, c)
     ELSE starts

\* the counters of Ended saturate here
MaxEnds == 2

\* History of the end(id) calls, by id: how many start(id) calls opened the
\* present round (a start after an end opens a new one), how many end(id)
\* calls were made in it, and how many events those have emitted.
Ended(c, o, out) ==
  LET id == o.n
      old == IF Has(starts, id) THEN starts[id]
             ELSE [started |-> 0, ends |-> 0, events |-> 0]
  IN IF ~Free(c) THEN starts
     ELSE IF o.name = "t_start"
       THEN Put(starts, id,
                IF old.ends > 0 THEN [started |-> 1, ends |-> 0, events |-> 0]
                ELSE [old EXCEPT !.started = Min(@ + 1, MaxEnds)])
     ELSE IF o.name = "t_end"
       THEN Put(starts, id,
                [old EXCEPT !.ends = Min(@ + 1, MaxEnds),
                            !.events = Min(@ + (IF out = <<>> THEN 0 ELSE 1),
                                           MaxEnds)])
     ELSE starts

\* History of the start(id) calls made since the last end(id) call: the
\* clock readings of the last two, oldest first. It is kept where the calls
\* are made one after another.
Started(c, o, nextpc, out) ==
  IF layer = "collision" THEN Tracked(c, o, nextpc)
  ELSE IF layer = "ends" THEN Ended(c, o, out)
  ELSE IF layer # "timing" \/ ~Free(c) THEN starts
  ELSE IF o.name = "t_start"
    THEN Put(starts, o.n,
             IF Has(starts, o.n) THEN <<starts[o.n][Len(starts[o.n])], now>>
             ELSE <<now>>)
  ELSE IF o.name = "t_end" THEN Remove(starts, o.n)
  ELSE starts

\* one step of a tracker call in slot c
TrackerStep(c, o, timings, out, nextpc, r, oc, rv) ==
  /\ layer \in TrackerLayers
  /\ activeTimings' = timings
  /\ starts' = Started(c, o, nextpc, out)
  /\ pc' = Keep(pc, c, nextpc, "idle")
  /\ op' = Keep(op, c, o, Idle)
  /\ sent' = Keep(sent, c, out, <<>>)
  /\ res' = Keep(res, c, r, "pending")
  /\ todo' = Keep(todo, c, <<>>, <<>>)
  /\ outcome' = Keep(outcome, c, oc, NoValue)
  /\ ret' = Keep(ret, c, rv, NoValue)
  /\ UNCHANGED <<facadeVars, envVars, now, initEver, acquires, warningVars,
                 hookVars>>

\* a tracker call starts in the first free slot
TrackerFree(c) == Free(c) /\ \A d \in Calls : d < c => ~Free(d)

StartCall(c) ==
  /\ TrackerFree(c)
  /\ \E id \in OpIds :
       TrackerStep(c, Operation("t_start", id, EmptyMap, <<>>),
                   StartBody(activeTimings, now, id), <<>>, "done", "resolved",
                   NoValue, NoValue)

EndCall(c) ==
  /\ TrackerFree(c)
  /\ \E id \in OpIds, metadata \in EndMetadata :
       LET e == EndBody(activeTimings, now, id, metadata)
           waits == e.seg.pc # "done"
       IN TrackerStep(c, Operation("t_end", id, metadata, <<>>), e.timings,
                      e.seg.out, IF waits THEN "t_end_log" ELSE "done",
                      IF waits THEN "pending" ELSE "resolved", NoValue, NoValue)

\* the provider call under logEvent returned or rejected; end returns
EndLogReturns(c) ==
  /\ pc[c] = "t_end_log"
  /\ \E ok \in BOOLEAN :
       LET r == IF ok THEN Seg(Facade, <<>>, "done") ELSE LogEventCatch(Facade)
       IN TrackerStep(c, op[c], activeTimings, sent[c], "done", r.res,
                      NoValue, NoValue)

\* track up to `await operation()`
TrackCall(c) ==
  /\ TrackerFree(c)
  /\ \E id \in OpIds :
       TrackerStep(c, Operation("t_track", id, EmptyMap, <<>>),
                   StartBody(activeTimings, now, id), <<>>, "t_track_op",
                   "pending", NoValue, NoValue)

\* operation() resolved or rejected: track calls end and awaits it
TrackOperationSettles(c) ==
  /\ pc[c] = "t_track_op"
  /\ \E oc \in Results \cup Errors :
       LET e == EndBody(activeTimings, now, op[c].n,
                        IF oc.kind = "value" THEN SuccessMetadata
                        ELSE FailureMetadata(oc))
           waits == e.seg.pc # "done"
           fin == TrackFinish(oc, e.seg.res)
       IN TrackerStep(c, op[c], e.timings, sent[c] \o e.seg.out,
                      IF waits THEN "t_track_log" ELSE "done",
                      IF waits THEN "pending" ELSE fin.res,
                      oc, IF waits THEN NoValue ELSE fin.ret)

\* the provider call under logEvent returned or rejected; track returns
TrackLogReturns(c) ==
  /\ pc[c] = "t_track_log"
  /\ \E ok \in BOOLEAN :
       LET r == IF ok THEN Seg(Facade, <<>>, "done") ELSE LogEventCatch(Facade)
           fin == TrackFinish(outcome[c], r.res)
       IN TrackerStep(c, op[c], activeTimings, sent[c], "done", fin.res,
                      outcome[c], fin.ret)

\* the records of finished calls are forgotten in a step of no call
Forget(x, v) == [d \in Calls |-> IF pc[d] = "done" THEN v ELSE x[d]]

\* time passes
Tick ==
  /\ layer \in TrackerLayers \cup {"hooks"}
  /\ now < Horizon
  /\ now' = now + TickSize
  /\ pc' = Forget(pc, "idle")
  /\ op' = Forget(op, Idle)
  /\ sent' = Forget(sent, <<>>)
  /\ res' = Forget(res, "pending")
  /\ todo' = Forget(todo, <<>>)
  /\ outcome' = Forget(outcome, NoValue)
  /\ ret' = Forget(ret, NoValue)
  /\ UNCHANGED <<facadeVars, envVars, initEver, acquires, activeTimings, starts,
                 warningVars, hookVars>>

InitTracker == InitLayer("tracker")

NextTracker ==
  \/ Tick
  \/ \E c \in Calls :
       \/ InitCall(c)
       \/ InitSetUserIdReturns(c)
       \/ InitTagReturns(c)
       \/ StartCall(c)
       \/ EndCall(c)
       \/ EndLogReturns(c)
       \/ TrackCall(c)
       \/ TrackOperationSettles(c)
       \/ TrackLogReturns(c)

SpecTracker == InitTracker /\ [][NextTracker]_vars

\* start and end called one after another, with every kind of metadata
InitTiming == InitLayer("timing")

NextTiming ==
  \/ Tick
  \/ InitCall(1)
  \/ InitSetUserIdReturns(1)
  \/ InitTagReturns(1)
  \/ StartCall(1)
  \/ EndCall(1)
  \/ EndLogReturns(1)

SpecTiming == InitTiming /\ [][NextTiming]_vars

\* track calls that overlap, with the order in which they started on record
InitCollision == InitLayer("collision")

NextCollision ==
  \/ Tick
  \/ \E c \in Calls :
       \/ InitCall(c)
       \/ InitSetUserIdReturns(c)
       \/ InitTagReturns(c)
       \/ TrackCall(c)
       \/ TrackOperationSettles(c)
       \/ TrackLogReturns(c)

SpecCollision == InitCollision /\ [][NextCollision]_vars

\* start and end calls that overlap, with the end calls of each id on
\* record; the clock stands still at its first reading
InitEnds == InitLayer("ends")

NextEnds ==
  \E c \in Calls :
       \/ InitCall(c)
       \/ InitSetUserIdReturns(c)
       \/ InitTagReturns(c)
       \/ StartCall(c)
       \/ EndCall(c)
       \/ EndLogReturns(c)

SpecEnds == InitEnds /\ [][NextEnds]_vars

\* ------------------------------------------------------------------------
\* The decorators TrackPerformance and TrackOperation: each invocation of a
\* decorated method is timed under the id `${operationName}_${Date.now()}`.
\* ------------------------------------------------------------------------
DecoratedOperations == {"save"}         \* operationName
PropertyKey == "run"                    \* the decorated method

\* `${operationName}_${Date.now()}`
TrackingId(operationName, t) == operationName \o "_" \o ToString(t)

\* TrackPerformance: performanceTracker.track(trackingId, ...) up to the
\* await of the decorated method
TrackPerformanceCall(c) ==
  /\ layer = "decorators"
  /\ TrackerFree(c)
  /\ \E operationName \in DecoratedOperations :
       LET id == TrackingId(operationName, now)
       IN TrackerStep(c, Operation("TrackPerformance", id, EmptyMap, <<>>),
                      StartBody(activeTimings, now, id), <<>>, "t_track_op",
                      "pending", NoValue, NoValue)

\* the metadata TrackOperation gives to end in its try block
TryMetadata(a) ==
  [operation |-> a.operation, method |-> a.method, success |-> TRUE]

\* the metadata TrackOperation gives to end in its catch block, at time t
CatchMetadata(a, t) ==
  [operation |-> a.operation, method |-> a.method, success |-> FALSE,
   duration_ms |-> t - a.startTime]

\* firebaseCrashlyticsService.logError(errorObj, `${operationName}.${propertyKey}`)
CrashReport(a, e) ==
  ACall("crashlytics", "logError", None, a.operation \o "." \o a.method,
        [message |-> IF e.isError THEN e.message ELSE "Unknown error"])

\* require('@umituz/react-native-firebase-crashlytics') throws or succeeds
CrashReporters == {"absent", "present"}

\* what a segment of TrackOperation yields: calls, position, promise, value
Stage(out, nextpc, r, rv) == [out |-> out, pc |-> nextpc, res |-> r, ret |-> rv]

\* the catch block after its `await performanceTracker.end(...)`: the inner
\* try up to `await firebaseCrashlyticsService.logError`, or `throw error`
CatchTail(crash, a, e) ==
  IF crash = "absent" THEN Stage(<<>>, "done", "rejected", e)
  ELSE Stage(<<CrashReport(a, e)>>, "d_logError", "pending", NoValue)

\* the catch block from its start: end() with the failure metadata
CatchBlock(timings, t, crash, a, id, e) ==
  LET ended == EndBody(timings, t, id, CatchMetadata(a, t))
      tail == CatchTail(crash, a, e)
  IN IF ended.seg.pc # "done"
       THEN [timings |-> ended.timings,
             tail |-> Stage(ended.seg.out, "d_end_catch", "pending", NoValue)]
       ELSE [timings |-> ended.timings,
             tail |-> [tail EXCEPT !.out = ended.seg.out \o @]]

\* TrackOperation up to `await originalMethod.apply(this, args)`
TrackOperationCall(c) ==
  /\ layer = "decorators"
  /\ TrackerFree(c)
  /\ \E operationName \in DecoratedOperations :
       LET id == TrackingId(operationName, now)
           a == [operation |-> operationName, method |-> PropertyKey,
                 startTime |-> now]
       IN TrackerStep(c, Operation("TrackOperation", id, a, <<>>),
                      StartBody(activeTimings, now, id), <<>>, "d_method",
                      "pending", NoValue, NoValue)

\* the decorated method resolved or rejected
MethodSettles(c) ==
  /\ pc[c] = "d_method"
  /\ \E oc \in Results \cup Errors :
       IF oc.kind = "value"
         THEN LET ended == EndBody(activeTimings, now, op[c].n,
                                   TryMetadata(op[c].a))
                  waits == ended.seg.pc # "done"
              IN TrackerStep(c, op[c], ended.timings,
                             sent[c] \o ended.seg.out,
                             IF waits THEN "d_end" ELSE "done",
                             IF waits THEN "pending" ELSE "resolved",
                             oc, IF waits THEN NoValue ELSE oc)
         ELSE \E crash \in CrashReporters :
                LET b == CatchBlock(activeTimings, now, crash, op[c].a,
                                    op[c].n, oc)
                IN TrackerStep(c, op[c], b.timings, sent[c] \o b.tail.out,
                               b.tail.pc, b.tail.res, oc, b.tail.ret)

\* end() of the try block settled: `return result`, or the catch block
TryEndReturns(c) ==
  /\ pc[c] = "d_end"
  /\ \E ok \in BOOLEAN, crash \in CrashReporters :
       LET r == IF ok THEN Seg(Facade, <<>>, "done") ELSE LogEventCatch(Facade)
           b == CatchBlock(activeTimings, now, crash, op[c].a, op[c].n,
                           ProviderError)
       IN IF r.res = "resolved"
            THEN TrackerStep(c, op[c], activeTimings, sent[c], "done",
                             "resolved", outcome[c], outcome[c])
            ELSE TrackerStep(c, op[c], b.timings, sent[c] \o b.tail.out,
                             b.tail.pc, b.tail.res, ProviderError, b.tail.ret)

\* end() of the catch block settled: the crash report, or `throw error`
CatchEndReturns(c) ==
  /\ pc[c] = "d_end_catch"
  /\ \E ok \in BOOLEAN, crash \in CrashReporters :
       LET r == IF ok THEN Seg(Facade, <<>>, "done") ELSE LogEventCatch(Facade)
           tail == IF r.res = "resolved"
                     THEN CatchTail(crash, op[c].a, outcome[c])
                     ELSE Stage(<<>>, "done", "rejected", ProviderError)
       IN TrackerStep(c, op[c], activeTimings, sent[c] \o tail.out, tail.pc,
                      tail.res, outcome[c], tail.ret)

\* logError resolved or rejected (`catch {}`): `throw error`
LogErrorReturns(c) ==
  /\ pc[c] = "d_logError"
  /\ \E ok \in BOOLEAN :
       TrackerStep(c, op[c], activeTimings, sent[c], "done", "rejected",
                   outcome[c], outcome[c])

InitDecorators == InitLayer("decorators")

NextDecorators ==
  \/ Tick
  \/ \E c \in Calls :
       \/ InitCall(c)
       \/ InitSetUserIdReturns(c)
       \/ InitTagReturns(c)
       \/ TrackPerformanceCall(c)
       \/ TrackOperationSettles(c)
       \/ TrackLogReturns(c)
       \/ TrackOperationCall(c)
       \/ MethodSettles(c)
       \/ TryEndReturns(c)
       \/ CatchEndReturns(c)
       \/ LogErrorReturns(c)

SpecDecorators == InitDecorators /\ [][NextDecorators]_vars

\* ------------------------------------------------------------------------
\* Initializer (AnalyticsInitializerService): stateless; it selects the
\* adapter by Platform.OS and acquires a handle.
\* ------------------------------------------------------------------------
PlatformOS == {"web", "ios", "android"}

\* what a segment of initialize() yields: the adapter calls it made, where
\* it is suspended next, and the value it resolved or rejected with
Outcome(out, nextpc, r, rv) == [out |-> out, pc |-> nextpc, res |-> r, ret |-> rv]

\* `return null`
ReturnsNull(out) == Outcome(out, "done", "resolved", Value(NullInstance))

\* `return { instance, platform }`
ReturnsInstance(out, h, platform) ==
  Outcome(out, "done", "resolved", Value([instance |-> h, platform |-> platform]))

\* a call of adapter p's getAnalytics with outcome o; h is the handle it gives
AdapterGetAnalytics(p, o, h) ==
  <<ACall(p, "getAnalytics", IF o = "handle" THEN h ELSE None,
          IF o = "throws" THEN "throws" ELSE "", EmptyMap)>>

InitializeNative(o) ==
  IF ~nativeAnalyticsAdapter THEN ReturnsNull(<<>>)
  ELSE LET got == AdapterGetAnalytics("native", o, NativeHandle)
       IN IF o = "handle" THEN ReturnsInstance(got, NativeHandle, "native")
          ELSE ReturnsNull(got)          \* `if (!instance)`, and the catch block

\* (mutant) a catch block of initializeWeb that rethrows
InitializeWebRethrow == Outcome(<<>>, "done", "rejected", ProviderError)

\* the outer catch block of initializeWeb
InitializeWebCatch == ReturnsNull(<<>>)

\* initializeWeb up to `await webAnalyticsAdapter.isSupported()`
InitializeWeb ==
  IF webAnalyticsAdapter
    THEN Outcome(<<ACall("web", "isSupported", None, "", EmptyMap)>>,
                 "i_isSupported", "pending", NoValue)
    ELSE InitializeWebCatch       \* `webAnalyticsAdapter!.getAnalytics`: TypeError

\* the call getFirebaseApp() with outcome app; it is no adapter method
GetFirebaseApp(app) ==
  <<ACall("app", "getFirebaseApp", None,
          IF app = "throws" THEN "throws" ELSE "", EmptyMap)>>

\* (mutant) initializeWeb that goes on without testing isSupported's answer
InitializeAfterSupportedUntested(sup, app, o) ==
  IF sup = "rejects" THEN InitializeWebCatch
  ELSE LET asked == GetFirebaseApp(app)
           got == asked \o AdapterGetAnalytics("web", o, WebHandle)
       IN IF app = "throws" THEN [InitializeWebCatch EXCEPT !.out = asked]
          ELSE IF app = "null" THEN ReturnsNull(asked)
          ELSE IF o = "throws" THEN ReturnsNull(got)
          ELSE ReturnsInstance(got, IF o = "handle" THEN WebHandle ELSE None,
                               "web")

\* initializeWeb from the result of isSupported() on
InitializeAfterSupported(sup, app, o) ==
  IF sup = "rejects" THEN InitializeWebCatch
  ELSE IF sup = "false" THEN ReturnsNull(<<>>)
  ELSE LET asked == GetFirebaseApp(app)
           got == asked \o AdapterGetAnalytics("web", o, WebHandle)
       IN IF app = "throws" THEN [InitializeWebCatch EXCEPT !.out = asked]
          ELSE IF app = "null" THEN ReturnsNull(asked)
          ELSE IF o = "throws" THEN ReturnsNull(got)
          ELSE ReturnsInstance(got, IF o = "handle" THEN WebHandle ELSE None,
                               "web")

\* (mutant) initialize that tries the native adapter first, whatever the OS
InitializeBodyNativeFirst(os, o) ==
  IF nativeAnalyticsAdapter THEN InitializeNative(o)
  ELSE IF webAnalyticsAdapter THEN InitializeWeb
  ELSE ReturnsNull(<<>>)

\* initialize up to its first await
InitializeBody(os, o) ==
  IF os = "web"
    THEN IF webAnalyticsAdapter THEN InitializeWeb ELSE ReturnsNull(<<>>)
    ELSE IF nativeAnalyticsAdapter THEN InitializeNative(o) ELSE ReturnsNull(<<>>)

\* the warnings counter saturates here
MaxWarnings == 2

\* (mutant) the warning of the variant without the static flag: on every call
InitializeWarnsEachCall(os, logged) ==
  os # "web" /\ ~nativeAnalyticsAdapter /\ dev

\* initialize reaches `if (__DEV__ && !nativeWarningLogged)` and enters it
InitializeWarns(os, logged) ==
  os # "web" /\ ~nativeAnalyticsAdapter /\ dev /\ ~logged

\* how the environment answered initializeWeb: isSupported(), getFirebaseApp()
Answered(sup, app) == [kind |-> "answered", sup |-> sup, app |-> app]

\* whether the initialize() call logged the warning
Warned(w) == [kind |-> "warned", w |-> w]

\* one step of an initialize() call in slot c; oc is what it met
InitializerStep(c, o, s, oc) ==
  /\ layer = "initializer"
  /\ pc' = Keep(pc, c, s.pc, "idle")
  /\ op' = Keep(op, c, o, Idle)
  /\ sent' = Keep(sent, c, (IF Free(c) THEN <<>> ELSE sent[c]) \o s.out, <<>>)
  /\ res' = Keep(res, c, s.res, "pending")
  /\ todo' = Keep(todo, c, <<>>, <<>>)
  /\ outcome' = Keep(outcome, c, oc, NoValue)
  /\ ret' = Keep(ret, c, s.ret, NoValue)
  /\ UNCHANGED <<facadeVars, envVars, trackerVars, initEver, acquires, hookVars>>

\* getAnalytics is reached on the native branch only
InitializeCall(c) ==
  /\ Free(c)
  /\ \A d \in Calls : d < c => ~Free(d)
  /\ \E os \in PlatformOS :
       \E o \in (IF os # "web" /\ nativeAnalyticsAdapter
                  THEN HandleOutcomes ELSE {"handle"}) :
         LET w == InitializeWarns(os, nativeWarningLogged)
         IN /\ InitializerStep(c, Operation("initialize", os, EmptyMap, <<>>),
                               InitializeBody(os, o), Warned(w))
            /\ nativeWarningLogged' = (nativeWarningLogged \/ w)
            /\ warnings' = IF w THEN Min(warnings + 1, MaxWarnings) ELSE warnings

InitializeIsSupportedReturns(c) ==
  /\ pc[c] = "i_isSupported"
  /\ \E sup \in SupportOutcomes :
       \E app \in (IF sup = "true" THEN AppOutcomes ELSE {"app"}) :
         \E o \in (IF sup = "true" /\ app = "app" THEN HandleOutcomes
                    ELSE {"handle"}) :
           /\ InitializerStep(c, op[c], InitializeAfterSupported(sup, app, o),
                              Answered(sup, app))
           /\ UNCHANGED warningVars

InitInitializer == InitLayer("initializer")

\* initialize() calls, and router calls on the instances they return
NextInitializer ==
  \E c \in Calls :
    \/ InitializeCall(c)
    \/ InitializeIsSupportedReturns(c)
    \/ RouterLogEventCall(c)
    \/ RouterSetUserIdCall(c)
    \/ RouterSetUserPropertyCall(c)
    \/ RouterReturns(c)
    \/ RouterSetUserPropertiesCall(c)
    \/ RouterSetUserPropertiesNext(c)
    \/ RouterClearUserDataCall(c)
    \/ RouterClearSetUserIdReturns(c)
    \/ RouterClearSetUserPropertiesReturns(c)
    \/ RouterClearResetReturns(c)

SpecInitializer == InitInitializer /\ [][NextInitializer]_vars

\* ------------------------------------------------------------------------
\* analyticsUtils: trackButtonClick and trackCRUDOperation return at once
\* and leave the facade call they started to settle on its own.
\* ------------------------------------------------------------------------
CrudOperations == {"create", "update", "delete", "read"}
EntityTypes == {"deck", "card"}
EntityIds == {"id1"}
\* additionalParams?: left out, or given (one with a key the call sets itself)
AdditionalParams == {EmptyMap, [role |-> "admin"], [operation |-> "import"]}

ButtonIds == {"save"}
\* options?: left out, or with some of buttonName, screenName, screenClass
\* and further keys
ButtonOptions ==
  {EmptyMap,
   [screenName |-> "Form"],
   [screenName |-> "Form", category |-> "form"],
   [buttonName |-> "Save", screenName |-> "Form", screenClass |-> "FormScreen",
    category |-> "form"],
   [buttonName |-> "", screenClass |-> ""],
   [screenName |-> "Form", button_id |-> "other"]}

Undefined == "undefined"        \* what a void function returns

\* the call firebaseAnalyticsService.<m>(n, a) made by a utility
Request(m, n, a) == ACall("facade", m, None, n, a)

\* `.catch(() => {})` on the promise of the facade call
SilentCatch(s) == [s EXCEPT !.res = IF @ = "rejected" THEN "resolved" ELSE @]

\* `${entityType}_${operation}d`
CrudEventName(operation, entityType) == entityType \o "_" \o operation \o "d"

\* { [`${entityType}_id`]: entityId, operation, entity_type, ...additionalParams }
CrudParams(operation, entityType, entityId, additional) ==
  Merge([k \in {entityType \o "_id", "operation", "entity_type"} |->
           IF k = "operation" THEN operation
           ELSE IF k = "entity_type" THEN entityType ELSE entityId],
        additional)

\* trackCRUDOperation: the facade's logEvent up to its await
TrackCRUDOperationBody(f, a) ==
  LET name == CrudEventName(a.operation, a.entityType)
      params == CrudParams(a.operation, a.entityType, a.entityId, a.additional)
      le == LogEventBody(f, name, params)
  IN SilentCatch([le EXCEPT !.out = <<Request("logEvent", name, params)>> \o @])

\* `const { buttonName, screenName, screenClass, ...additionalParams } = options || {}`
AdditionalOptions(options) ==
  [k \in (DOMAIN options) \ {"buttonName", "screenName", "screenClass"} |->
     options[k]]

\* the params object trackButtonClick builds
TrackButtonClickParams(buttonId, options) ==
  Merge([button_id |-> buttonId,
         button_name |-> OrElse(options, "buttonName", buttonId),
         screen_name |-> OrElse(options, "screenName", "unknown"),
         screen_class |-> OrElse(options, "screenClass",
                                 OrElse(options, "screenName", "unknown"))],
        AdditionalOptions(options))

\* trackButtonClick: the facade's logButtonClick up to its await
TrackButtonClickBody(f, buttonId, options) ==
  LET params == TrackButtonClickParams(buttonId, options)
      le == LogEventBody(f, "button_click", ButtonClickParams(params))
  IN SilentCatch([le EXCEPT !.out = <<Request("logButtonClick", "", params)>> \o @])

TrackCRUDOperationCall(c) ==
  /\ layer = "utils"
  /\ \E operation \in CrudOperations, entityType \in EntityTypes,
        entityId \in EntityIds, additional \in AdditionalParams :
       LET a == [operation |-> operation, entityType |-> entityType,
                 entityId |-> entityId, additional |-> additional]
       IN BeginWith(c, Operation("trackCRUDOperation", "", a, <<>>),
                    TrackCRUDOperationBody(Facade, a), Value(Undefined))

TrackButtonClickCall(c) ==
  /\ layer = "utils"
  /\ \E buttonId \in ButtonIds, options \in ButtonOptions :
       BeginWith(c, Operation("trackButtonClick", buttonId, options, <<>>),
                 TrackButtonClickBody(Facade, buttonId, options), Value(Undefined))

InitUtils == InitLayer("utils")

\* the utilities, init of the facade, and the provider's answers
NextUtils ==
  \E c \in Calls :
    \/ InitCall(c)
    \/ InitSetUserIdReturns(c)
    \/ InitTagReturns(c)
    \/ TrackCRUDOperationCall(c)
    \/ TrackButtonClickCall(c)
    \/ LogEventReturns(c)

SpecUtils == InitUtils /\ [][NextUtils]_vars

\* ------------------------------------------------------------------------
\* Screen hooks: useScreenView(screenName, screenClass) of one mounted
\* screen, which is useScreenTime, useNavigationTracking and an effect of
\* its own. The effects run when the screen gains focus (or the props
\* change) and their cleanups when it loses it.
\* ------------------------------------------------------------------------
HookScreenNames == {"Home", "Profile", ""}
HookScreenClasses == {"", "HomeScreen"}     \* screenClass?: left out, or given
MaxViews == 2           \* the screen_view counter saturates here

\* the props an effect captured
Props(screenName, screenClass) ==
  [screenName |-> screenName, screenClass |-> screenClass]

\* `screenClass || screenName`
ClassOrName(p) == IF p.screenClass # "" THEN p.screenClass ELSE p.screenName

\* Math.round(ms / 1000), for ms >= 0: halves round up
RoundSeconds(ms) == (2 * ms + 1000) \div 2000

\* an effect or cleanup that calls nothing
NoRequest(f) == Seg(f, <<>>, "done")

\* firebaseAnalyticsService.logScreenTime({...}).catch(...), up to its await
ScreenTimeRequest(f, p, timeSpent) ==
  LET a == [screen_name |-> p.screenName, screen_class |-> ClassOrName(p),
            time_spent_seconds |-> timeSpent]
      le == LogEventBody(f, "screen_time", ScreenTimeParams(a))
  IN SilentCatch([le EXCEPT !.out = <<Request("logScreenTime", "", a)>> \o @])

\* the cleanup of useScreenTime's effect, run at clock reading t
ScreenTimeCleanup(f, p, start, t) ==
  IF start # NoValue /\ RoundSeconds(t - start.v) >= 1
    THEN ScreenTimeRequest(f, p, RoundSeconds(t - start.v))
    ELSE NoRequest(f)

\* firebaseAnalyticsService.logNavigation({...}).catch(...), up to its await
NavigationRequest(f, p, from) ==
  LET a == [from_screen |-> from, to_screen |-> p.screenName,
            screen_class |-> ClassOrName(p)]
      le == LogEventBody(f, "navigation", NavigationParams(a))
  IN SilentCatch([le EXCEPT !.out = <<Request("logNavigation", "", a)>> \o @])

\* the effect of useNavigationTracking
NavigationEffect(f, p, first, previous) ==
  IF first THEN NoRequest(f)
  ELSE IF previous # NoValue /\ previous.v # "" /\ previous.v # p.screenName
    THEN NavigationRequest(f, p, previous.v)
    ELSE NoRequest(f)

\* the task of useScreenView's effect: logScreenView({...}).catch(...)
ScreenViewRequest(f, p) ==
  LET a == [screen_name |-> p.screenName, screen_class |-> ClassOrName(p)]
      le == LogEventBody(f, "screen_view", ScreenViewParams(a))
  IN SilentCatch([le EXCEPT !.out = <<Request("logScreenView", "", a)>> \o @])

\* (mutant) a cleanup of useScreenView's effect that leaves the task queued
ScreenViewCleanupKeeps(t) == t

\* the cleanup of useScreenView's effect: task.cancel()
ScreenViewCleanup(t) == NoValue

\* the screen gains focus: the three effects run, in the order of the hooks
ScreenFocus(c) ==
  /\ layer = "hooks"
  /\ focusedScreen = NoValue
  /\ \E n \in HookScreenNames, k \in HookScreenClasses :
       LET p == Props(n, k)
       IN /\ BeginCall(c, Operation("focus", n, p, <<>>),
                       NavigationEffect(Facade, p, isFirstFocusRef,
                                        previousScreenRef),
                       Value(Undefined))
          /\ focusedScreen' = Value(p)
          /\ startTimeRef' = Value(now)
          /\ isFirstFocusRef' = FALSE
          /\ previousScreenRef' = Value(n)
          /\ task' = Value(p)       \* InteractionManager.runAfterInteractions
          /\ views' = 0

\* the screen loses focus: the cleanups run
ScreenBlur(c) ==
  /\ layer = "hooks"
  /\ focusedScreen # NoValue
  /\ BeginCall(c, Operation("blur", focusedScreen.v.screenName,
                            focusedScreen.v, <<>>),
               ScreenTimeCleanup(Facade, focusedScreen.v, startTimeRef, now),
               Value(Undefined))
  /\ focusedScreen' = NoValue
  /\ startTimeRef' = NoValue
  /\ task' = ScreenViewCleanup(task)
  /\ UNCHANGED <<previousScreenRef, isFirstFocusRef, views>>

\* the interactions have settled: the InteractionManager runs the task
InteractionsSettle(c) ==
  /\ layer = "hooks"
  /\ task # NoValue
  /\ BeginCall(c, Operation("settle", task.v.screenName, task.v, <<>>),
               ScreenViewRequest(Facade, task.v), Value(Undefined))
  /\ task' = NoValue
  /\ views' = Min(views + 1, MaxViews)
  /\ UNCHANGED <<focusedScreen, startTimeRef, previousScreenRef,
                 isFirstFocusRef>>

InitHooks == InitLayer("hooks")

\* the screen's focus changes, init of the facade, the provider's answers;
\* each facade call is delivered before the next event
NextHooks ==
  \/ Tick
  \/ InitCall(1)
  \/ InitSetUserIdReturns(1)
  \/ InitTagReturns(1)
  \/ ScreenFocus(1)
  \/ ScreenBlur(1)
  \/ InteractionsSettle(1)
  \/ LogEventReturns(1)

SpecHooks == InitHooks /\ [][NextHooks]_vars

\* ------------------------------------------------------------------------
\* Properties
\* ------------------------------------------------------------------------
LogOps == {"logEvent", "logScreenView", "logScreenTime", "logNavigation",
           "logButtonClick"}

\* the calls of provider method m among the provider calls out
Calls_(out, m) == {i \in 1..Len(out) : out[i].m = m}

\* an init() call is suspended at one of its awaits
InitAwaiting(c) ==
  op[c].name = "init" /\ pc[c] \in {"init_isSupported", "init_setUserId", "init_tag"}

\* slot c returns in this step as a call of operation name
Completes(c, name) == op'[c].name = name /\ pc'[c] = "done"

\* slot c starts a call in this step (a finished call that does not act is
\* forgotten, so a free slot that holds a call afterwards has begun it)
Begins(c) == Free(c) /\ op'[c].name # "idle"

\* C1: single-flight init: over any sequence of init() calls with no
\* clearUserData() in between, getAnalytics is executed at most once.
C1_SingleFlightInit == acquires <= 1

\* C2: concurrent init: while an init() call is suspended at an await, that
\* call and another init() call together execute getAnalytics at most once.
C2_ConcurrentInitAcquiresOnce ==
  \A c, d \in Calls :
    (c # d /\ InitAwaiting(c) /\ op[d].name = "init")
      => Acquired(sent[c]) + Acquired(sent[d]) <= 1

\* C3: provider failures never surface: no call of the facade or of the
\* routers ever rejects, whatever the provider calls do.
C3_NoFailureSurfaces == \A c \in Calls : res[c] # "rejected"

\* a clearUserData() call whose second provider call never happened (the
\* first one failed, or the handle was gone) and which resolved all the same
C3_Witness ==
  \E c \in Calls :
    /\ op[c].name = "clearUserData" /\ pc[c] = "done"
    /\ Len(sent[c]) = 1 /\ res[c] = "resolved"

\* C4: as long as init() has never been called, a logEvent call dispatches
\* no provider call at all.
C4_LogEventBeforeInit ==
  ~initEver => \A c \in Calls : op[c].name = "logEvent" => sent[c] = <<>>

C4_Witness ==
  ~initEver /\ layer = "facade" /\ Provider # "none"
    /\ \E c \in Calls : op[c].name = "logEvent" /\ pc[c] = "done"

\* C5: a logEvent (or derived event) call made while the initialized flag is
\* false dispatches no provider call.
C5_LogEventNoOpUninitialized ==
  [][\A c \in Calls :
       (Begins(c) /\ ~isInitialized /\ op'[c].name \in LogOps)
         => sent'[c] = <<>>]_vars

\* C6: when a clearUserData() call completes, the user id is null, the
\* property cache is empty and the initialized flag is false.
C6_ClearAlwaysResets ==
  [][\A c \in Calls :
       Completes(c, "clearUserData")
         => (userId' = Null /\ DOMAIN userProperties' = {} /\ ~isInitialized')]_vars

\* C7: when a clearUserData() call completes, the facade holds no instance
\* (so that the next init() has to acquire a handle again).
C7_ClearDestroysInstance ==
  [][\A c \in Calls : Completes(c, "clearUserData") => analytics' = None]_vars

\* C8: whenever an init() call completes, on whichever path, the
\* initialized flag is true.
C8_InitMarksInitialized ==
  [][\A c \in Calls : Completes(c, "init") => isInitialized']_vars

\* an init() call has completed without any instance, and the flag is set
C8_Witness ==
  \E c \in Calls :
    op[c].name = "init" /\ pc[c] = "done" /\ analytics = None /\ isInitialized

\* C9: once the facade is initialized with an instance and stored user id x,
\* a further init(x) dispatches no provider setUserId call.
C9_NoRedundantSetUserId ==
  [][\A c \in Calls :
       (Begins(c) /\ op'[c].name = "init" /\ isInitialized /\ analytics # None
          /\ userId # Null /\ op'[c].n = userId)
         => Calls_(sent'[c], "setUserId") = {}]_vars

\* the init() call in slot c executed getAnalytics and got a handle
Obtained(c) ==
  \E i \in Calls_(sent[c], "getAnalytics") : sent[c][i].h # None

UserType(uid) == IF uid # NoUser THEN "authenticated" ELSE "guest"

\* C10: every init() call that obtained an instance has, when it completes,
\* dispatched exactly one user_type property: 'authenticated' after one
\* setUserId(userId) if a userId was given, 'guest' and no setUserId if not.
C10_InitTagsUser ==
  \A c \in Calls :
    (op[c].name = "init" /\ pc[c] = "done" /\ Obtained(c))
      => LET tags == Calls_(sent[c], "setUserProperties")
             ids == Calls_(sent[c], "setUserId")
         IN /\ Cardinality(tags) = 1
            /\ \A i \in tags : sent[c][i].a = Map1("user_type", UserType(op[c].n))
            /\ Cardinality(ids) = (IF op[c].n # NoUser THEN 1 ELSE 0)
            /\ \A i \in ids, j \in tags : sent[c][i].n = op[c].n /\ i < j

\* C11: no instance implies no user id: in every state in which the facade
\* holds no instance, getCurrentUserId() returns null.
C11_NoInstanceNoUserId == analytics = None => userId = Null

\* C12: with the calls made one after another, once init(u) with a user id u
\* has completed and an instance is bound, getCurrentUserId() returns u,
\* whatever the provider's setUserId call did.
C12_UserIdReflectsInit ==
  \A c \in Calls :
    (op[c].name = "init" /\ pc[c] = "done" /\ op[c].n # NoUser /\ analytics # None)
      => userId = op[c].n

\* C13: user-property caching is independent of initialization: in every
\* state setUserProperty(key, value) puts its entry into the userProperties
\* cache, and so does setUserProperties(map) for the entry it starts with.
C13_PropertiesCachedAlways ==
  [][\A c \in Calls :
       /\ (Begins(c) /\ op'[c].name = "setUserProperty")
            => \A k \in DOMAIN op'[c].a :
                 Has(userProperties', k) /\ userProperties'[k] = op'[c].a[k]
       /\ (Begins(c) /\ op'[c].name = "setUserProperties" /\ op'[c].l # <<>>)
            => LET e == op'[c].l[1]
               IN Has(userProperties', e[1]) /\ userProperties'[e[1]] = e[2]]_vars

PropertiesOps == {"setUserProperties", "r_setUserProperties"}

\* the provider call for the i-th entry of the setUserProperties call in slot
\* c, to the provider and with the handle of that call's first provider call
EntryCall(c, i) ==
  ACall(sent[c][1].p, "setUserProperties", sent[c][1].h, "",
        Map1(op[c].l[i][1], op[c].l[i][2]))

\* the call for the first entry was dispatched: a provider was bound
FirstEntrySent(c) ==
  /\ op[c].name \in PropertiesOps /\ op[c].l # <<>>
  /\ sent[c] # <<>> /\ sent[c][1] = EntryCall(c, 1)

C15_LogEventRoundTrip ==
  [][\A c \in Calls :
       /\ (Begins(c) /\ op'[c].name = "logEvent" /\ isInitialized /\ analytics # None)
            => sent'[c] = <<ACall(Provider, "logEvent", analytics, op'[c].n, op'[c].a)>>
       /\ (~Free(c) /\ op[c].name = "logEvent") => sent'[c] \in {sent[c], <<>>}]_vars

\* a logEvent call without params has completed on an initialized facade and
\* the provider got the event, params absent
C15_Witness ==
  \E c \in Calls :
    /\ op[c].name = "logEvent" /\ pc[c] = "done" /\ isInitialized
    /\ op[c].a = NoParams /\ Len(sent[c]) = 1
    /\ sent[c][1].m = "logEvent" /\ sent[c][1].h = analytics
    /\ sent[c][1].n = op[c].n /\ sent[c][1].a = NoParams

DerivedOps == {"logScreenView", "logScreenTime", "logNavigation", "logButtonClick"}

\* what counts as a field the caller supplied
Present == "present"            \* it is there, whatever its value
NonEmpty == "non-empty"         \* it is there with a non-empty value
Supplied(rule, a, k) == k \in DOMAIN a /\ (rule = NonEmpty => a[k] # "")

\* field k of a if it counts as supplied, else the default
Default(rule, a, k, dflt) == IF Supplied(rule, a, k) THEN a[k] ELSE dflt

\* the event name and the params a derived event is to emit for argument a
DerivedName(name) ==
  CASE name = "logScreenView" -> "screen_view"
    [] name = "logScreenTime" -> "screen_time"
    [] name = "logNavigation" -> "navigation"
    [] name = "logButtonClick" -> "button_click"

DerivedParams(rule, name, a) ==
  CASE name = "logScreenView" ->
         [screen_name |-> a.screen_name,
          screen_class |-> Default(rule, a, "screen_class", a.screen_name)]
    [] name = "logScreenTime" ->
         [screen_name |-> a.screen_name,
          screen_class |-> Default(rule, a, "screen_class", a.screen_name),
          time_spent_seconds |-> a.time_spent_seconds]
    [] name = "logNavigation" ->
         [from_screen |-> a.from_screen, to_screen |-> a.to_screen,
          screen_class |-> Default(rule, a, "screen_class", a.to_screen)]
    [] name = "logButtonClick" ->
         [button_id |-> a.button_id,
          button_name |-> Default(rule, a, "button_name", a.button_id),
          screen_name |-> a.screen_name,
          screen_class |-> Default(rule, a, "screen_class", a.screen_name)]

\* each derived event call made with an instance bound dispatches the one
\* provider logEvent that DerivedName and DerivedParams prescribe
DerivedEmits(rule) ==
  \A c \in Calls :
    (Begins(c) /\ op'[c].name \in DerivedOps /\ analytics # None)
      => sent'[c] = <<ACall(Provider, "logEvent", analytics,
                            DerivedName(op'[c].name),
                            DerivedParams(rule, op'[c].name, op'[c].a))>>

\* C16 (as stated): derived events have a fixed name and normalized
\* parameters: screen_view, screen_time, navigation and button_click with
\* the defaults for absent fields, and every field the caller supplied is
\* passed through unchanged.
C16_DerivedEventsAsStated == [][DerivedEmits(Present)]_vars

\* C16 (amended): the same, where an optional screen_class or button_name
\* counts as supplied only if it is a non-empty string: an empty one is
\* replaced by the default like an absent one; time_spent_seconds and the
\* required fields are passed through unchanged.
C16_DerivedEvents == [][DerivedEmits(NonEmpty)]_vars

\* logButtonClick({button_id: "save", screen_name: "Form"}) reached the
\* provider as button_click with both defaults filled in
C16_Witness ==
  \E c \in Calls :
    /\ op[c].name = "logButtonClick"
    /\ op[c].a = [button_id |-> "save", screen_name |-> "Form"]
    /\ Len(sent[c]) = 1 /\ sent[c][1].n = "button_click"
    /\ sent[c][1].a = [button_id |-> "save", button_name |-> "save",
                        screen_name |-> "Form", screen_class |-> "Form"]

\* the performance_metric events the call in slot c has emitted
Metrics(out) == {i \in 1..Len(out) : out[i] = Metric(out[i].a)}

\* C17: unmatched end is a no-op: in every registry state, end(id) for an id
\* without an active entry emits no performance_metric event (and makes no
\* provider call), resolves at once and leaves the registry unchanged.
C17_UnmatchedEndNoOp ==
  [][\A c \in Calls :
       (Begins(c) /\ op'[c].name = "t_end" /\ ~Has(activeTimings, op'[c].n))
         => /\ sent'[c] = <<>>
            /\ pc'[c] = "done" /\ res'[c] = "resolved"
            /\ activeTimings' = activeTimings]_vars

\* an end(id) has returned without emitting while the facade has an instance
\* and the registry holds an entry for another id, still there
C17_Witness ==
  \E c \in Calls :
    /\ op[c].name = "t_end" /\ pc[c] = "done" /\ sent[c] = <<>>
    /\ ~Has(activeTimings, op[c].n) /\ activeTimings # EmptyMap
    /\ analytics # None

\* C18: timing measurement: for every clock reading t0 >= 0 at which id was
\* started and every elapsed time T >= 0, end(id) at t0 + T emits exactly one
\* performance_metric event, with operation = id and duration_ms = T.
C18_TimingMeasurement ==
  [][\A c \in Calls :
       (Begins(c) /\ op'[c].name = "t_end" /\ Has(activeTimings, op'[c].n))
         => LET m == Metrics(sent'[c])
            IN /\ Cardinality(m) = 1
               /\ \A i \in m :
                    /\ sent'[c][i].a.operation = op'[c].n
                    /\ sent'[c][i].a.duration_ms = now - activeTimings[op'[c].n]]_vars

\* the performance_metric events of the call in slot c whose success flag is b
MetricsWith(c, b) ==
  {i \in Metrics(sent[c]) :
     Has(sent[c][i].a, "success") /\ sent[c][i].a.success = b}

\* C19: track on success: when the wrapped operation resolved to a value v,
\* track never rejects, and once it has returned it has resolved to exactly v
\* and has emitted one performance_metric event, with success = true.
C19_TrackSuccess ==
  \A c \in Calls :
    (op[c].name = "t_track" /\ outcome[c].kind = "value")
      => /\ res[c] # "rejected"
         /\ pc[c] = "done"
              => /\ res[c] = "resolved" /\ ret[c] = outcome[c]
                 /\ Cardinality(Metrics(sent[c])) = 1
                 /\ Cardinality(MetricsWith(c, TRUE)) = 1

\* C20: track on failure: when the wrapped operation rejected with e, track
\* rejects with that same e, and by then it has emitted one
\* performance_metric event with success = false and error_message = e's
\* message ('Unknown error' when e is not an Error).
C20_TrackFailure ==
  \A c \in Calls :
    (op[c].name = "t_track" /\ outcome[c].kind = "error")
      => /\ res[c] # "resolved"
         /\ pc[c] = "done"
              => /\ res[c] = "rejected" /\ ret[c] = outcome[c]
                 /\ Cardinality(Metrics(sent[c])) = 1
                 /\ \A i \in Metrics(sent[c]) :
                      /\ sent[c][i].a.success = FALSE
                      /\ sent[c][i].a.error_message =
                           (IF outcome[c].isError THEN outcome[c].message
                            ELSE "Unknown error")

\* C21: track always emits: every track(id, op) call that has returned,
\* whether op resolved or rejected and whatever the clock read when it
\* started, has emitted exactly one performance_metric event, which carries
\* a success flag and a duration.
C21_TrackAlwaysEmits ==
  \A c \in Calls :
    (op[c].name = "t_track" /\ pc[c] = "done")
      => LET m == Metrics(sent[c])
         IN /\ Cardinality(m) = 1
            /\ \A i \in m : /\ Has(sent[c][i].a, "success")
                             /\ Has(sent[c][i].a, "duration_ms")

\* C22: metadata merge is last-write-wins: the performance_metric event that
\* end(id, metadata) emits has exactly the keys operation, duration_ms and
\* those of metadata; every metadata key carries the caller's value, also
\* when the key is operation or duration_ms; otherwise operation is id and
\* duration_ms is the time elapsed since the start.
C22_MetadataMerge ==
  [][\A c \in Calls :
       (Begins(c) /\ op'[c].name = "t_end")
         => \A i \in Metrics(sent'[c]) :
              LET a == sent'[c][i].a
                  metadata == op'[c].a
                  id == op'[c].n
              IN /\ DOMAIN a = (DOMAIN metadata) \cup {"operation", "duration_ms"}
                 /\ \A k \in DOMAIN metadata : a[k] = metadata[k]
                 /\ ~Has(metadata, "operation") => a.operation = id
                 /\ ~Has(metadata, "duration_ms")
                      => a.duration_ms = now - activeTimings[id]]_vars

\* an end whose metadata carries operation and duration_ms itself has
\* emitted its event, with the caller's values for both
C22_Witness ==
  \E c \in Calls :
    /\ op[c].name = "t_end" /\ pc[c] = "done" /\ op[c].n = "op1"
    /\ Has(op[c].a, "duration_ms") /\ Has(op[c].a, "operation")
    /\ Metrics(sent[c]) # {}
    /\ \A i \in Metrics(sent[c]) :
         /\ sent[c][i].a.operation = "save" /\ sent[c][i].a.duration_ms = 7
         /\ sent[c][i].a.method = "run" /\ sent[c][i].a.success = FALSE

\* C23: last start wins: a start(id) for an id that is already active
\* raises no error and adds no second entry, and after start(id) at t1 and
\* start(id) at t2 with no end(id) in between, the following end(id) at t3
\* emits exactly one event, whose duration_ms is t3 - t2.
C23_LastStartWins ==
  [][\A c \in Calls :
       /\ (Begins(c) /\ op'[c].name = "t_start" /\ Has(activeTimings, op'[c].n))
            => /\ pc'[c] = "done" /\ res'[c] = "resolved"
               /\ DOMAIN activeTimings' = DOMAIN activeTimings
       /\ (Begins(c) /\ op'[c].name = "t_end" /\ op'[c].a = EmptyMap
              /\ Has(starts, op'[c].n) /\ Len(starts[op'[c].n]) = 2)
            => LET m == Metrics(sent'[c])
               IN /\ Cardinality(m) = 1
                  /\ \A i \in m :
                       sent'[c][i].a.duration_ms = now - starts[op'[c].n][2]]_vars

\* C24: end always removes the entry: in every registry state, and for
\* every clock reading at which the entry was started, once end(id) has
\* been called the registry holds no entry for id.
C24_EndRemovesEntry ==
  [][\A c \in Calls :
       (Begins(c) /\ op'[c].name = "t_end") => ~Has(activeTimings', op'[c].n)]_vars

\* C31: registry collision between overlapping track calls with the same id:
\* the call that started earlier emits no event when its operation settles,
\* and the call that started later emits exactly one performance_metric
\* event, with the duration measured from its own start, whichever of the
\* two operations settles first.
C31_CollisionLosesEarlier ==
  [][\A c \in Calls :
       (pc[c] = "t_track_op" /\ pc'[c] # "t_track_op" /\ c \in DOMAIN starts)
         => LET m == Metrics(sent'[c])
            IN /\ (starts[c].overlapped /\ ~starts[c].later) => m = {}
               /\ (starts[c].later /\ ~starts[c].overlapped)
                    => /\ Cardinality(m) = 1
                       /\ \A i \in m :
                            sent'[c][i].a.duration_ms = now - starts[c].t]_vars

\* the provider kind whose getAnalytics returns the handle h
HandleKind(h) == IF h = NativeHandle THEN "native" ELSE "web"

\* C32: providers are never mixed: the facade holds at most one handle, a
\* handle of the provider that init selects; and every provider call the
\* facade issues with a handle (getAnalytics, logEvent, setUserId,
\* setUserProperties, reset) goes to the provider kind that created that
\* handle, whichever of the two SDKs are loadable.
C32_ProvidersNeverMixed ==
  layer = "facade" =>
    /\ analytics \in {None, NativeHandle, WebHandle}
    /\ analytics # None => HandleKind(analytics) = Provider
    /\ \A c \in Calls : \A i \in 1..Len(sent[c]) :
         sent[c][i].h # None
           => /\ sent[c][i].p = HandleKind(sent[c][i].h)
              /\ sent[c][i].p = Provider

\* with both SDKs loadable the facade holds the native handle, and a
\* logEvent call has handed an event and that handle to the native SDK
C32_Witness ==
  /\ layer = "facade" /\ nativeAnalytics /\ webAnalytics
  /\ analytics = NativeHandle
  /\ \E c \in Calls :
       /\ op[c].name = "logEvent" /\ Len(sent[c]) = 1
       /\ sent[c][1].m = "logEvent" /\ sent[c][1].h = NativeHandle
       /\ sent[c][1].p = "native"

\* the positions of the calls of method m among the calls out
Positions(out, m) == {k \in 1..Len(out) : out[k].m = m}

\* C33: web initialization order: an initialize() call on the web branch
\* has called isSupported() before it requests the application object and
\* before it calls getAnalytics, and it requests the application object
\* before it calls getAnalytics; when isSupported() answered false, or the
\* application object was unavailable, it has returned null and has not
\* called getAnalytics.
C33_WebInitOrder ==
  \A c \in Calls :
    (op[c].name = "initialize" /\ op[c].n = "web")
      => /\ \A k \in Positions(sent[c], "getFirebaseApp")
                     \cup Positions(sent[c], "getAnalytics") :
              \E j \in Positions(sent[c], "isSupported") : j < k
         /\ \A k \in Positions(sent[c], "getAnalytics") :
              \E j \in Positions(sent[c], "getFirebaseApp") : j < k
         /\ (pc[c] = "done" /\ outcome[c].kind = "answered"
               /\ (outcome[c].sup = "false" \/ outcome[c].app # "app"))
              => /\ ret[c] = Value(NullInstance)
                 /\ Positions(sent[c], "getAnalytics") = {}

\* an initialize() on the web whose isSupported() answered true and whose
\* application object was unavailable has returned null after those two
\* calls, in that order, and without a getAnalytics call
C33_Witness ==
  \E c \in Calls :
    /\ op[c].name = "initialize" /\ op[c].n = "web" /\ pc[c] = "done"
    /\ outcome[c] = Answered("true", "null")
    /\ ret[c] = Value(NullInstance)
    /\ Len(sent[c]) = 2
    /\ sent[c][1].m = "isSupported" /\ sent[c][2].m = "getFirebaseApp"

\* C34: the 'native provider unavailable' diagnostic is logged at most
\* once per process: over any number of initialize() calls, the warning has
\* been logged at most one time in total, and every initialize() call made
\* on the native branch with no native adapter registered has returned null.
C34_WarnsAtMostOnce ==
  /\ warnings <= 1
  /\ \A c \in Calls :
       (op[c].name = "initialize" /\ op[c].n # "web" /\ ~nativeAnalyticsAdapter)
         => /\ pc[c] = "done" /\ res[c] = "resolved"
            /\ ret[c] = Value(NullInstance)

\* in a development build, an initialize() call on the native branch with no
\* native adapter has returned null without logging, the warning having
\* been logged once by an earlier call
C34_Witness ==
  \E c \in Calls :
    /\ op[c].name = "initialize" /\ op[c].n = "ios" /\ pc[c] = "done"
    /\ dev /\ ~nativeAnalyticsAdapter
    /\ outcome[c] = Warned(FALSE) /\ ret[c] = Value(NullInstance)
    /\ nativeWarningLogged /\ warnings = 1

\* C25: router dispatch: a call of the event router or of the user-state
\* router (logEvent, setUserId, setUserProperty, setUserProperties,
\* clearUserData) made with a null instance calls no adapter method; made
\* with an instance it calls only methods of the adapter whose kind is
\* instance.platform, each with instance.instance as the handle.
C25_RouterDispatch ==
  \A c \in Calls :
    op[c].name \in RouterOps
      => /\ op[c].i = NullInstance => sent[c] = <<>>
         /\ \A k \in 1..Len(sent[c]) :
              /\ sent[c][k].p = op[c].i.platform
              /\ sent[c][k].h = op[c].i.instance

\* with both adapters there, a clearUserData on a web instance has returned
\* after its two calls of the web adapter, and none of the native one
C25_Witness ==
  \E c \in Calls :
    /\ op[c].name = "r_clearUserData" /\ pc[c] = "done"
    /\ nativeAnalyticsAdapter /\ webAnalyticsAdapter
    /\ op[c].i.platform = "web" /\ Len(sent[c]) = 2
    /\ \A k \in 1..2 : sent[c][k].p = "web" /\ sent[c][k].h = WebHandle

\* the branch that Platform.OS selects
Branch(os) == IF os = "web" THEN "web" ELSE "native"

\* C26: initializer branch exclusivity: an initialize() call attempts one
\* branch, decided by the environment alone: every adapter method it calls
\* is one of the web adapter when the environment is web and one of the
\* native adapter when it is not, whichever adapters are registered, and an
\* instance it returns is tagged with the platform of that branch.
C26_BranchExclusive ==
  \A c \in Calls :
    op[c].name = "initialize"
      => /\ \A k \in 1..Len(sent[c]) :
              sent[c][k].m # "getFirebaseApp" => sent[c][k].p = Branch(op[c].n)
         /\ (ret[c].kind = "value" /\ ret[c].v # NullInstance)
              => ret[c].v.platform = Branch(op[c].n)

\* with both adapters registered, an initialize() on the web has returned a
\* web instance after isSupported and getAnalytics of the web adapter only
C26_Witness ==
  \E c \in Calls :
    /\ op[c].name = "initialize" /\ op[c].n = "web" /\ pc[c] = "done"
    /\ nativeAnalyticsAdapter /\ webAnalyticsAdapter
    /\ ret[c] = Value([instance |-> WebHandle, platform |-> "web"])
    /\ Len(sent[c]) = 3 /\ \A k \in {1, 3} : sent[c][k].p = "web"

\* C27: the initializer never raises: whatever the environment, the
\* adapters registered, and the outcomes of isSupported() (true, false,
\* rejects), of getFirebaseApp() and of getAnalytics (returns, throws), an
\* initialize() call never rejects, and once it has returned it has
\* resolved to null or to an AnalyticsInstance.
C27_InitializeNeverRaises ==
  \A c \in Calls :
    op[c].name = "initialize"
      => /\ res[c] # "rejected"
         /\ pc[c] = "done"
              => /\ res[c] = "resolved" /\ ret[c].kind = "value"
                 /\ \/ ret[c].v = NullInstance
                    \/ ret[c].v.platform \in {"native", "web"}

\* an initialize() on the web whose isSupported() rejected has resolved to
\* null
C27_Witness ==
  \E c \in Calls :
    /\ op[c].name = "initialize" /\ pc[c] = "done"
    /\ outcome[c] = Answered("rejects", "app")
    /\ res[c] = "resolved" /\ ret[c] = Value(NullInstance)

\* C28: the initializer returns only live handles: an AnalyticsInstance
\* that initialize() returns has a usable handle, and an initialize() whose
\* getAnalytics threw or returned nothing returns null.
C28_LiveHandles ==
  \A c \in Calls :
    (op[c].name = "initialize" /\ ret[c].kind = "value")
      => /\ ret[c].v # NullInstance => ret[c].v.instance # None
         /\ \A k \in 1..Len(sent[c]) :
              (sent[c][k].m = "getAnalytics" /\ sent[c][k].h = None)
                => ret[c].v = NullInstance

\* the requests a utility made to the facade, among the calls out
Requests(out) == {i \in 1..Len(out) : out[i].p = "facade"}

\* the past form the event names are to carry
PastForm(operation) ==
  CASE operation = "create" -> "created"
    [] operation = "update" -> "updated"
    [] operation = "delete" -> "deleted"
    [] operation = "read" -> "read"

\* C29: trackCRUDOperation names its event after the entity and the past
\* form of the operation: for create, update, delete and read on entity type
\* E it emits exactly one event, named E_created, E_updated, E_deleted and
\* E_read, with the params {E_id: entityId, operation, entity_type: E}
\* merged with the additional params.
C29_CrudEventNames ==
  \A c \in Calls :
    op[c].name = "trackCRUDOperation"
      => LET a == op[c].a
             r == Requests(sent[c])
         IN /\ Cardinality(r) = 1
            /\ \A i \in r :
                 /\ sent[c][i].m = "logEvent"
                 /\ sent[c][i].n = a.entityType \o "_" \o PastForm(a.operation)
                 /\ sent[c][i].a =
                      Merge([k \in {a.entityType \o "_id", "operation", "entity_type"} |->
                               IF k = "operation" THEN a.operation
                               ELSE IF k = "entity_type" THEN a.entityType
                               ELSE a.entityId],
                            a.additional)

\* C30: trackButtonClick(buttonId, options) forwards one button-click
\* request with button_id = buttonId, button_name defaulting to buttonId,
\* screen_name defaulting to 'unknown', screen_class defaulting to
\* screenName and then to 'unknown' (an empty string counting as left out);
\* every additional option key is in the parameters of the request and of
\* the event tracked for it; the call has returned by the time the request
\* is made and never raises, whatever the analytics call does.
C30_TrackButtonClick ==
  [][\A c \in Calls :
       /\ op'[c].name = "trackButtonClick" => res'[c] # "rejected"
       /\ (Begins(c) /\ op'[c].name = "trackButtonClick")
            => LET id == op'[c].n
                   o == op'[c].a
                   r == Requests(sent'[c])
                   screen == Default(NonEmpty, o, "screenName", "unknown")
               IN /\ ret'[c] = Value(Undefined)
                  /\ Cardinality(r) = 1
                  /\ \A i \in r :
                       /\ sent'[c][i].m = "logButtonClick"
                       /\ sent'[c][i].a.button_id = id
                       /\ sent'[c][i].a.button_name =
                            Default(NonEmpty, o, "buttonName", id)
                       /\ sent'[c][i].a.screen_name = screen
                       /\ sent'[c][i].a.screen_class =
                            Default(NonEmpty, o, "screenClass", screen)
                  /\ \A i \in 1..Len(sent'[c]) :
                       \A k \in DOMAIN AdditionalOptions(o) :
                         Has(sent'[c][i].a, k) /\ sent'[c][i].a[k] = o[k]]_vars

\* the requests for method m among the calls out
RequestsFor(out, m) == {i \in Requests(out) : out[i].m = m}

\* C35: screen-time threshold: when the screen loses focus, the screen-time
\* hook requests a screen_time event only if at least 1000 ms have passed
\* since the focus (for a shorter stay it requests none), and in both cases
\* the stored start time is cleared.
C35_ScreenTimeThreshold ==
  [][(focusedScreen # NoValue /\ focusedScreen' = NoValue)
       => /\ startTimeRef' = NoValue
          /\ \A c \in Calls :
               Begins(c)
                 => LET e == RequestsFor(sent'[c], "logScreenTime")
                    IN /\ Cardinality(e) <= 1
                       /\ e # {} => now - startTimeRef.v >= 1000]_vars

\* C36: navigation signal: over any sequence of focus events, the first
\* focus requests no event; each later focus requests exactly one navigation
\* event, from the previously recorded screen name to the newly focused
\* one, if the two names differ, and none if they are equal; every focus
\* records the newly focused name.
C36_NavigationSignal ==
  [][(focusedScreen = NoValue /\ focusedScreen' # NoValue)
       => /\ previousScreenRef' = Value(focusedScreen'.v.screenName)
          /\ \A c \in Calls :
               Begins(c)
                 => LET e == RequestsFor(sent'[c], "logNavigation")
                        to == focusedScreen'.v.screenName
                    IN IF isFirstFocusRef THEN e = {}
                       ELSE IF previousScreenRef.v = to THEN e = {}
                       ELSE /\ Cardinality(e) = 1
                            /\ \A i \in e :
                                 /\ sent'[c][i].a.from_screen = previousScreenRef.v
                                 /\ sent'[c][i].a.to_screen = to]_vars

\* C37: deferred screen view: the focus itself requests no screen_view but
\* queues a task; a screen_view is requested only when the interactions have
\* settled, by that task, while the screen still has the focus, for the
\* screen that was focused, and at most once per focus; a blur cancels the
\* task, so that no screen_view is requested for a focus that was lost
\* before the interactions settled.
C37_DeferredScreenView ==
  [][\A c \in Calls :
       Begins(c)
         => LET e == RequestsFor(sent'[c], "logScreenView")
            IN /\ Cardinality(e) <= 1
               /\ e # {}
                    => /\ focusedScreen # NoValue /\ focusedScreen' = focusedScreen
                       /\ task # NoValue /\ task' = NoValue
                       /\ views = 0 /\ views' = 1
                       /\ \A i \in e :
                            sent'[c][i].a.screen_name = focusedScreen.v.screenName
               /\ (focusedScreen = NoValue /\ focusedScreen' # NoValue)
                    => task' # NoValue /\ e = {}
               /\ (focusedScreen # NoValue /\ focusedScreen' = NoValue)
                    => task' = NoValue /\ e = {}]_vars

\* the interactions settled while the screen 'Home' had the focus: its one
\* screen_view has been requested and delivered to the provider
C37_Witness ==
  \E c \in Calls :
    /\ op[c].name = "settle" /\ pc[c] = "done"
    /\ focusedScreen # NoValue /\ focusedScreen.v.screenName = "Home"
    /\ task = NoValue /\ views = 1
    /\ Len(sent[c]) = 2 /\ sent[c][1].m = "logScreenView"
    /\ sent[c][2].n = "screen_view"

\* the crash reports among the calls out
CrashReports(out) == {i \in 1..Len(out) : out[i].m = "logError"}

\* C38: TrackOperation failure path: when the decorated method has rejected
\* with error e, the wrapper has emitted one performance_metric event, with
\* success = false, before any crash report; it never resolves, and once it
\* has returned it has rejected with that same e, whether the crash
\* reporter is absent, succeeds or throws.
C38_TrackOperationFailure ==
  \A c \in Calls :
    (op[c].name = "TrackOperation" /\ outcome[c].kind = "error")
      => /\ res[c] # "resolved"
         /\ Cardinality(Metrics(sent[c])) = 1
         /\ Cardinality(MetricsWith(c, FALSE)) = 1
         /\ \A i \in CrashReports(sent[c]) : \E j \in Metrics(sent[c]) : j < i
         /\ pc[c] = "done" => (res[c] = "rejected" /\ ret[c] = outcome[c])

\* C39: every invocation of a TrackPerformance-wrapped method that has
\* returned has emitted exactly one performance_metric event and has
\* resolved to the value, or rejected with the error, of the wrapped method,
\* also when two invocations overlap or start at the same clock reading.
C39_TrackPerformanceEmitsOnce ==
  \A c \in Calls :
    (op[c].name = "TrackPerformance" /\ pc[c] = "done")
      => /\ Cardinality(Metrics(sent[c])) = 1
         /\ ret[c] = outcome[c]
         /\ res[c] = (IF outcome[c].kind = "value" THEN "resolved" ELSE "rejected")

\* C40: duplicate end is emitted once: after a single start(id), however
\* many end(id) calls have been made, one after another or while an earlier
\* end(id) still awaits the delivery of its event, they have emitted exactly
\* one performance_metric event in total.
C40_DuplicateEndEmitsOnce ==
  \A id \in DOMAIN starts :
    (starts[id].started = 1 /\ starts[id].ends >= 1) => starts[id].events = 1

====
